---------------------------- MODULE Spec2Model ----------------------------
(***************************************************************************)
(* Model of the alert-to-transaction matching engine of the Telex bank     *)
(* alert agent: TransactionMatcher (findMatches, scoreMatch,               *)
(* calculateSimilarity, levenshteinDistance) of                            *)
(* src/src/services/transaction-matcher.ts.                                *)
(*                                                                         *)
(* JavaScript numbers are IEEE-754 binary64 values.  The confidence is a   *)
(* sum of the decimal literals 0.4, 0.3, 0.2 and of similarity * 0.1, and  *)
(* is compared with 0.6 and with other confidences, so its rounding is     *)
(* modelled: a number is a record [m, e] of value m * 2^e whose mantissa m *)
(* is a 53-bit natural kept as a little-endian sequence of 15-bit limbs.   *)
(* Amounts and timestamps of the model are whole numbers below 2^31, which *)
(* binary64 holds exactly; they are kept as integers.                      *)
(***************************************************************************)
EXTENDS Integers, Sequences, FiniteSets, TLC

(***************************************************************************)
(* Naturals of any size: little-endian limbs, no leading zero limb.        *)
(***************************************************************************)
RECURSIVE Pow2(_)
Pow2(k) == IF k = 0 THEN 1 ELSE 2 * Pow2(k - 1)

\* A limb holds 15 bits, so that a product of two limbs stays below 2^31.
LimbBits == 3 * 5
Base == Pow2(LimbBits)

RECURSIVE BigNorm(_)
BigNorm(a) ==
    IF a = <<>> THEN a
    ELSE IF a[Len(a)] = 0 THEN BigNorm(SubSeq(a, 1, Len(a) - 1))
    ELSE a

RECURSIVE BigOfNat(_)
BigOfNat(n) == IF n = 0 THEN <<>> ELSE <<n % Base>> \o BigOfNat(n \div Base)

RECURSIVE BigAddC(_, _, _)
BigAddC(a, b, c) ==
    IF a = <<>> /\ b = <<>>
    THEN (IF c = 0 THEN <<>> ELSE <<c>>)
    ELSE LET x == (IF a = <<>> THEN 0 ELSE Head(a))
                  + (IF b = <<>> THEN 0 ELSE Head(b)) + c
         IN  <<x % Base>>
                 \o BigAddC(IF a = <<>> THEN a ELSE Tail(a),
                            IF b = <<>> THEN b ELSE Tail(b),
                            x \div Base)

BigAdd(a, b) == BigAddC(a, b, 0)

RECURSIVE BigMulSmallC(_, _, _)
BigMulSmallC(a, k, c) ==
    IF a = <<>>
    THEN (IF c = 0 THEN <<>> ELSE <<c>>)
    ELSE LET x == Head(a) * k + c
         IN  <<x % Base>> \o BigMulSmallC(Tail(a), k, x \div Base)

\* a * k for 0 <= k < Base
BigMulSmall(a, k) == BigNorm(BigMulSmallC(a, k, 0))

RECURSIVE BigMul(_, _)
BigMul(a, b) ==
    IF a = <<>> \/ b = <<>> THEN <<>>
    ELSE LET rest == BigMul(a, Tail(b))
         IN  BigAdd(BigMulSmall(a, Head(b)),
                    IF rest = <<>> THEN rest ELSE <<0>> \o rest)

\* Quotient and remainder of a by d, 0 < d < 2 * Base, from the top limb down.
RECURSIVE BigDivSmallR(_, _, _)
BigDivSmallR(a, d, r) ==
    IF a = <<>> THEN [q |-> <<>>, r |-> r]
    ELSE LET x    == r * Base + a[Len(a)]
             rest == BigDivSmallR(SubSeq(a, 1, Len(a) - 1), d, x % d)
         IN  [q |-> rest.q \o <<x \div d>>, r |-> rest.r]

BigDivSmall(a, d) ==
    LET res == BigDivSmallR(a, d, 0) IN [q |-> BigNorm(res.q), r |-> res.r]

Zeros(k) == [i \in 1..k |-> 0]

\* a * 2^k
BigShl(a, k) ==
    IF a = <<>> THEN a
    ELSE BigMulSmall(Zeros(k \div LimbBits) \o a, Pow2(k % LimbBits))

\* floor(a / 2^k)
BigShr(a, k) ==
    IF Len(a) <= k \div LimbBits THEN <<>>
    ELSE BigDivSmall(SubSeq(a, (k \div LimbBits) + 1, Len(a)), Pow2(k % LimbBits)).q

RECURSIVE SmallBitLen(_)
SmallBitLen(n) == IF n = 0 THEN 0 ELSE 1 + SmallBitLen(n \div 2)

BigBitLen(a) ==
    IF a = <<>> THEN 0 ELSE LimbBits * (Len(a) - 1) + SmallBitLen(a[Len(a)])

BigOdd(a) == a # <<>> /\ Head(a) % 2 = 1

\* -1, 0, 1 as a < b, a = b, a > b
RECURSIVE BigCmp(_, _)
BigCmp(a, b) ==
    IF Len(a) # Len(b) THEN (IF Len(a) < Len(b) THEN -1 ELSE 1)
    ELSE IF a = <<>> THEN 0
    ELSE IF a[Len(a)] # b[Len(b)] THEN (IF a[Len(a)] < b[Len(b)] THEN -1 ELSE 1)
    ELSE BigCmp(SubSeq(a, 1, Len(a) - 1), SubSeq(b, 1, Len(b) - 1))

(***************************************************************************)
(* binary64 values >= 0: [m, e] is m * 2^e with m of exactly MantBits bits *)
(* (or m = <<>>, e = 0 for zero).  Every operation rounds its exact result *)
(* to the nearest such value, ties to the even mantissa.                   *)
(***************************************************************************)
\* 52 stored fraction bits and the implicit leading bit
MantBits == 52 + 1

FZero == [m |-> <<>>, e |-> 0]

\* m * 2^e for a mantissa m of MantBits or MantBits + 1 bits (the latter is
\* 2^MantBits, a rounding that carried into the next binade).
FNormal(m, e) ==
    IF BigBitLen(m) > MantBits
    THEN [m |-> BigShr(m, 1), e |-> e + 1]
    ELSE [m |-> m, e |-> e]

\* Rounding of N of more than MantBits bits: s bits are dropped, h is N without
\* the s - 1 lowest bits (its last bit is the first one dropped), q is N
\* without the s lowest.  Up when more than half an ulp was dropped, or half
\* of one and q is odd.
FRoundNearest(N, e, sticky, s, h, q) ==
    FNormal(IF BigOdd(h) /\ (sticky \/ BigOdd(q) \/ BigShl(h, s - 1) # N)
            THEN BigAdd(q, <<1>>)
            ELSE q,
            e + s)

FRoundDrop(N, e, sticky, s, h) == FRoundNearest(N, e, sticky, s, h, BigShr(h, 1))

\* L is the number of bits of N
FRoundLen(N, e, sticky, L) ==
    IF L = 0 THEN FZero
    ELSE IF L <= MantBits
    THEN [m |-> BigShl(N, MantBits - L), e |-> e - (MantBits - L)]
    ELSE FRoundDrop(N, e, sticky, L - MantBits, BigShr(N, L - MantBits - 1))

\* The binary64 nearest to N * 2^e (+ something in (0, 2^e) when sticky).
FRound(N, e, sticky) == FRoundLen(N, e, sticky, BigBitLen(N))

RatioShift == 5 * LimbBits

\* The binary64 nearest to the rational n / d, for naturals n < 2^31 and
\* 0 < d < 2 * Base: a decimal literal, or the quotient of two whole numbers
\* (binary64 division is correctly rounded).
FRatioOf(qr) == FRound(qr.q, 0 - RatioShift, qr.r # 0)

FRatio(n, d) ==
    IF n = 0 THEN FZero
    ELSE FRatioOf(BigDivSmall(Zeros(RatioShift \div LimbBits) \o BigOfNat(n), d))

\* a + b for a, b # 0, with lo the smaller of the two exponents
FAddAligned(a, b, lo) ==
    FRound(BigAdd(BigShl(a.m, a.e - lo), BigShl(b.m, b.e - lo)), lo, FALSE)

FAdd(a, b) ==
    IF a.m = <<>> THEN b
    ELSE IF b.m = <<>> THEN a
    ELSE FAddAligned(a, b, IF a.e < b.e THEN a.e ELSE b.e)

FMul(a, b) == FRound(BigMul(a.m, b.m), a.e + b.e, FALSE)

\* -1, 0, 1 as a < b, a = b, a > b
FCmp(a, b) ==
    IF a.m = <<>> \/ b.m = <<>>
    THEN (IF a.m = b.m THEN 0 ELSE IF a.m = <<>> THEN -1 ELSE 1)
    ELSE IF a.e # b.e THEN (IF a.e < b.e THEN -1 ELSE 1)
    ELSE BigCmp(a.m, b.m)

FLeq(a, b) == FCmp(a, b) <= 0


FOne == FRatio(1, 1)

(***************************************************************************)
(* Numbers that may be NaN (timestamps and their differences): the time    *)
(* value of an Invalid Date is NaN, and every comparison with NaN is false.*)
(***************************************************************************)
Num(v) == [nan |-> FALSE, v |-> v]
NaN == [nan |-> TRUE, v |-> 0]
NumSub(a, b) == IF a.nan \/ b.nan THEN NaN ELSE Num(a.v - b.v)
NumAbs(a) == IF a.nan THEN NaN ELSE Num(IF a.v < 0 THEN 0 - a.v ELSE a.v)
NumLeq(a, b) == ~a.nan /\ ~b.nan /\ a.v <= b.v
\* JavaScript truthiness of a number: 0 and NaN are falsy
NumTruthy(a) == ~a.nan /\ a.v # 0

Abs(x) == IF x < 0 THEN 0 - x ELSE x

(***************************************************************************)
(* Strings are sequences of one-character strings.                         *)
(***************************************************************************)
UpperChars ==
    <<"A", "B", "C", "D", "E", "F", "G", "H", "I", "J", "K", "L", "M",
      "N", "O", "P", "Q", "R", "S", "T", "U", "V", "W", "X", "Y", "Z">>
LowerChars ==
    <<"a", "b", "c", "d", "e", "f", "g", "h", "i", "j", "k", "l", "m",
      "n", "o", "p", "q", "r", "s", "t", "u", "v", "w", "x", "y", "z">>
WhiteSpace == {" ", "\t", "\n", "\r"}

toLowerCaseChar(c) ==
    IF \E i \in DOMAIN UpperChars : UpperChars[i] = c
    THEN LowerChars[CHOOSE i \in DOMAIN UpperChars : UpperChars[i] = c]
    ELSE c

toLowerCase(s) == [i \in 1..Len(s) |-> toLowerCaseChar(s[i])]

RECURSIVE trimStart(_)
trimStart(s) ==
    IF s # <<>> /\ Head(s) \in WhiteSpace THEN trimStart(Tail(s)) ELSE s

RECURSIVE trimEnd(_)
trimEnd(s) ==
    IF s # <<>> /\ s[Len(s)] \in WhiteSpace
    THEN trimEnd(SubSeq(s, 1, Len(s) - 1))
    ELSE s

trim(s) == trimEnd(trimStart(s))

Min(a, b) == IF a < b THEN a ELSE b

(***************************************************************************)
(* levenshteinDistance: one row of costs, costs[j] kept at index j + 1.    *)
(***************************************************************************)
\* Variant of levenshteinColumn whose minimum leaves out costs[j], the entry
\* above: C10 tells the two apart.
levenshteinColumnNoAbove(s1, s2, i, j, st) ==
    LET newValue == IF s1[i] # s2[j]
                    THEN Min(st.costs[j], st.lastValue) + 1
                    ELSE st.costs[j]
    IN  [costs |-> [st.costs EXCEPT ![j] = st.lastValue], lastValue |-> newValue]

\* The body of the inner loop for row i >= 1 and column j >= 1, on
\* st = [costs, lastValue]  (for j = 0 the body does nothing in these rows).
levenshteinColumn(s1, s2, i, j, st) ==
    LET newValue == IF s1[i] # s2[j]
                    THEN Min(Min(st.costs[j], st.lastValue), st.costs[j + 1]) + 1
                    ELSE st.costs[j]
    IN  [costs |-> [st.costs EXCEPT ![j] = st.lastValue], lastValue |-> newValue]

\* The inner loop of row i over the columns lo..hi in ascending order.  The
\* columns are split in two halves, the second run on the outcome of the
\* first, so that the evaluation of long strings stays shallow; the guard
\* first = first is true and has the first half computed before the second
\* is begun.
RECURSIVE levenshteinInner(_, _, _, _, _, _)
levenshteinInner(s1, s2, i, lo, hi, st) ==
    IF lo > hi THEN st
    ELSE IF lo = hi THEN levenshteinColumn(s1, s2, i, lo, st)
    ELSE LET first == levenshteinInner(s1, s2, i, lo, (lo + hi) \div 2, st)
         IN  CASE first = first ->
                  levenshteinInner(s1, s2, i, (lo + hi) \div 2 + 1, hi, first)

\* The outer loop from row i >= 1 on: the costs row at its end.  The guard
\* row = row is true; it has the row computed before the next one is begun.
RECURSIVE levenshteinOuter(_, _, _, _)
levenshteinOuter(s1, s2, i, costs) ==
    IF i > Len(s1) THEN costs
    ELSE LET row == levenshteinInner(s1, s2, i, 1, Len(s2),
                                     [costs |-> costs, lastValue |-> i])
         IN  CASE row = row ->
                  levenshteinOuter(s1, s2, i + 1,
                                   [row.costs EXCEPT ![Len(s2) + 1] = row.lastValue])

levenshteinDistance(s1, s2) ==
    levenshteinOuter(s1, s2, 1, [j \in 1..(Len(s2) + 1) |-> j - 1])[Len(s2) + 1]

\* Variant of calculateSimilarity that does not trim: C9 tells the two apart.
calculateSimilarityNoTrim(str1, str2) ==
    LET s1 == toLowerCase(str1)
        s2 == toLowerCase(str2)
        longer  == IF Len(s1) > Len(s2) THEN s1 ELSE s2
        shorter == IF Len(s1) > Len(s2) THEN s2 ELSE s1
        editDistance == levenshteinDistance(shorter, longer)
    IN  IF s1 = s2 THEN FOne
        ELSE IF Len(s1) = 0 \/ Len(s2) = 0 THEN FZero
        ELSE FRatio(Len(longer) - editDistance, Len(longer))

calculateSimilarity(str1, str2) ==
    LET s1 == trim(toLowerCase(str1))
        s2 == trim(toLowerCase(str2))
        longer  == IF Len(s1) > Len(s2) THEN s1 ELSE s2
        shorter == IF Len(s1) > Len(s2) THEN s2 ELSE s1
        editDistance == levenshteinDistance(shorter, longer)
    IN  IF s1 = s2 THEN FOne
        ELSE IF Len(s1) = 0 \/ Len(s2) = 0 THEN FZero
        ELSE FRatio(Len(longer) - editDistance, Len(longer))


(***************************************************************************)
(* Timestamps.  A timestamp field holds a Date (valid, or Invalid Date), a *)
(* string (as in a JSON request body), a number, or nothing.  Times are    *)
(* milliseconds; a string carries the time value Date parsing gives it     *)
(* (NaN when it does not parse).                                           *)
(***************************************************************************)
DateOf(ms)   == [kind |-> "date", t |-> Num(ms)]
InvalidDate  == [kind |-> "date", t |-> NaN]
StringOf(ms) == [kind |-> "string", t |-> Num(ms)]
BadString    == [kind |-> "string", t |-> NaN]
NumberOf(ms) == [kind |-> "number", t |-> Num(ms)]
Undefined    == [kind |-> "undefined", t |-> NaN]

\* clock is the value of Date.now()
toTimestamp(value, clock) ==
    IF value.kind = "undefined" THEN Num(clock)
    ELSE IF value.kind = "number" /\ ~NumTruthy(value.t) THEN Num(clock)
    ELSE IF value.kind = "date" THEN value.t
    ELSE IF value.kind = "string"
         THEN (IF NumTruthy(value.t) THEN value.t ELSE Num(clock))
    ELSE IF value.kind = "number" THEN value.t
    ELSE Num(clock)

(***************************************************************************)
(* TransactionMatcher                                                      *)
(***************************************************************************)
TIME_WINDOW_MS == 15 * 60 * 1000
AMOUNT_TOLERANCE == FRatio(2, 100)
MIN_CONFIDENCE_THRESHOLD == FRatio(6, 10)

AMOUNT_WEIGHT == FRatio(4, 10)
ACCOUNT_WEIGHT == FRatio(3, 10)
TIME_WEIGHT == FRatio(2, 10)
\* Variant of DESCRIPTION_WEIGHT, the time factor's weight written for the
\* description: C11 tells the two apart.
DESCRIPTION_WEIGHT_AsTime == FRatio(2, 10)
DESCRIPTION_WEIGHT == FRatio(1, 10)

\* transactionId of a result that is not matched
Null == "null"

\* if (ok) confidence += weight
addIf(ok, confidence, weight) == IF ok THEN FAdd(confidence, weight) ELSE confidence

\* Variant of confidenceScore with the amount and account weights exchanged:
\* C4 tells the two apart.
confidenceScoreSwapped(amountOk, accountOk, timeOk, descriptionSimilarity) ==
    FAdd(addIf(timeOk,
               addIf(accountOk, addIf(amountOk, FZero, ACCOUNT_WEIGHT), AMOUNT_WEIGHT),
               TIME_WEIGHT),
         FMul(descriptionSimilarity, DESCRIPTION_WEIGHT))

\* Variant of confidenceScore that adds the similarity without its weight:
\* C5 tells the two apart.
confidenceScoreUnweighted(amountOk, accountOk, timeOk, descriptionSimilarity) ==
    FAdd(addIf(timeOk,
               addIf(accountOk, addIf(amountOk, FZero, AMOUNT_WEIGHT), ACCOUNT_WEIGHT),
               TIME_WEIGHT),
         descriptionSimilarity)

\* let confidence = 0; if (amountMatches) confidence += 0.4; if (accountMatches)
\* confidence += 0.3; if (isWithinTimeWindow) confidence += 0.2;
\* confidence += descriptionSimilarity * 0.1
confidenceScore(amountOk, accountOk, timeOk, descriptionSimilarity) ==
    FAdd(addIf(timeOk,
               addIf(accountOk, addIf(amountOk, FZero, AMOUNT_WEIGHT), ACCOUNT_WEIGHT),
               TIME_WEIGHT),
         FMul(descriptionSimilarity, DESCRIPTION_WEIGHT))

\* Variant of isWithinTimeWindow with timeDiff < TIME_WINDOW_MS: C7 tells the
\* two apart.
isWithinTimeWindowStrict(timeDiff) ==
    NumLeq(timeDiff, Num(TIME_WINDOW_MS)) /\ timeDiff.v # TIME_WINDOW_MS

isWithinTimeWindow(timeDiff) == NumLeq(timeDiff, Num(TIME_WINDOW_MS))

\* Variant of amountDiffPercent without the guard for an alert amount of 0:
\* x / 0 is Infinity or NaN, neither of which is <= the tolerance (1 stands
\* for it here).  C8 tells the two apart.
amountDiffPercentNoGuard(alertAmount, amountDiff) ==
    IF alertAmount > 0 THEN FRatio(amountDiff, alertAmount) ELSE FOne

amountDiffPercent(alertAmount, amountDiff) ==
    IF alertAmount > 0 THEN FRatio(amountDiff, alertAmount) ELSE FZero

\* Variant of amountMatches with amountDiffPercent < AMOUNT_TOLERANCE: C6
\* tells the two apart.
amountMatchesStrict(alertAmount, amountDiff) ==
    FCmp(amountDiffPercent(alertAmount, amountDiff), AMOUNT_TOLERANCE) < 0

amountMatches(alertAmount, amountDiff) ==
    FLeq(amountDiffPercent(alertAmount, amountDiff), AMOUNT_TOLERANCE)

\* Variant of isMatched with confidence > MIN_CONFIDENCE_THRESHOLD: C2 tells
\* the two apart.
isMatchedStrict(confidence) == FCmp(MIN_CONFIDENCE_THRESHOLD, confidence) < 0

isMatched(confidence) == FLeq(MIN_CONFIDENCE_THRESHOLD, confidence)

\* The returned object, from the values scoreMatch has computed.
matchResult(alert, txn, amountOk, amountDiff, timeDiff, descriptionSimilarity, confidence, matched) ==
    [alertId       |-> alert.id,
     transactionId |-> IF matched THEN txn.id ELSE Null,
     confidence    |-> confidence,
     matchDetails  |-> [amountMatch           |-> amountOk,
                        amountDifference      |-> amountDiff,
                        timeWindow            |-> timeDiff,
                        descriptionSimilarity |-> descriptionSimilarity],
     matched       |-> matched]

\* CONFIDENCE SCORING and the threshold, from the four comparisons' values.
scoreFactors(alert, txn, amountOk, amountDiff, timeDiff, descriptionSimilarity, confidence) ==
    matchResult(alert, txn, amountOk, amountDiff, timeDiff, descriptionSimilarity,
                confidence, isMatched(confidence))

scoreComparisons(alert, txn, amountOk, amountDiff, timeDiff, descriptionSimilarity) ==
    scoreFactors(alert, txn, amountOk, amountDiff, timeDiff, descriptionSimilarity,
                 confidenceScore(amountOk,
                                 alert.accountNumber = txn.accountNumber,
                                 isWithinTimeWindow(timeDiff),
                                 descriptionSimilarity))

scoreDifferences(alert, txn, timeDiff, amountDiff) ==
    scoreComparisons(alert, txn, amountMatches(alert.amount, amountDiff), amountDiff,
                     timeDiff,
                     calculateSimilarity(alert.description, txn.description))

scoreMatch(alert, txn, clock) ==
    scoreDifferences(alert, txn,
                     NumAbs(NumSub(toTimestamp(alert.timestamp, clock),
                                   toTimestamp(txn.timestamp, clock))),
                     Abs(alert.amount - txn.amount))

\* The comparator of the sort, (a, b) => b.confidence - a.confidence, as its
\* sign: a binary64 difference is 0 only for equal operands.
compareConfidence(a, b) == FCmp(b.confidence, a.confidence)

\* Variant of sortInsert that is not stable (x goes before the elements equal
\* to it): C3 tells the two apart.
RECURSIVE sortInsertUnstable(_, _)
sortInsertUnstable(sorted, x) ==
    IF sorted = <<>> THEN <<x>>
    ELSE IF compareConfidence(Head(sorted), x) >= 0
         THEN <<x>> \o sorted
         ELSE <<Head(sorted)>> \o sortInsertUnstable(Tail(sorted), x)

\* Array.prototype.sort is stable: x goes before the first element that the
\* comparator orders strictly after it.
RECURSIVE sortInsert(_, _)
sortInsert(sorted, x) ==
    IF sorted = <<>> THEN <<x>>
    ELSE IF compareConfidence(Head(sorted), x) > 0
         THEN <<x>> \o sorted
         ELSE <<Head(sorted)>> \o sortInsert(Tail(sorted), x)

RECURSIVE sort(_)
sort(arr) ==
    IF arr = <<>> THEN <<>>
    ELSE sortInsert(sort(SubSeq(arr, 1, Len(arr) - 1)), arr[Len(arr)])

\* Variant of findMatches that returns the matched results only: C1 tells the
\* two apart.
findMatchesMatchedOnly(alert, txns, clock) ==
    SelectSeq(sort([i \in 1..Len(txns) |-> scoreMatch(alert, txns[i], clock)]),
              LAMBDA r : r.matched)

\* Arrays are objects: heap holds the arrays there are, an array's place in
\* it is its identity.
\* Variant of arrayMap that puts the values into the array itself: C20 tells
\* the two apart.
arrayMapInPlace(heap, id, values) == [heap |-> [heap EXCEPT ![id] = values], id |-> id]

\* heap[id].map(...): a new array of the values
arrayMap(heap, id, values) == [heap |-> Append(heap, values), id |-> Len(heap) + 1]

\* array.sort(...): the array itself with its elements in order
arraySort(array) ==
    [heap |-> [array.heap EXCEPT ![array.id] = sort(array.heap[array.id])],
     id   |-> array.id]

\* findMatches for the candidate list heap[id]: the heap after the call and
\* the identity of the array returned
findMatchesCall(heap, id, alert, clock) ==
    arraySort(arrayMap(heap, id,
                       [i \in 1..Len(heap[id]) |-> scoreMatch(alert, heap[id][i], clock)]))

\* the elements of the array findMatches returns for a candidate list that
\* is the one array there is
findMatches(alert, txns, clock) ==
    LET array == findMatchesCall(<<txns>>, 1, alert, clock)
    IN  array.heap[array.id]


(***************************************************************************)
(* Regular expressions, as far as BANK_PATTERNS uses them: a pattern is a  *)
(* list of alternatives, an alternative a list of items [set, min, max]    *)
(* (a character class repeated greedily between min and max times) of      *)
(* which the items first..last are capture group 1.  Positions count the   *)
(* characters before them: 0 is the start of the text.                     *)
(***************************************************************************)
Digits == {"0", "1", "2", "3", "4", "5", "6", "7", "8", "9"}
Letters == {UpperChars[i] : i \in DOMAIN UpperChars} \cup {LowerChars[i] : i \in DOMAIN LowerChars}
\* \w
WordChars == Letters \cup Digits \cup {"_"}
Naira == "₦"

toUpperCaseChar(c) ==
    IF \E i \in DOMAIN LowerChars : LowerChars[i] = c
    THEN UpperChars[CHOOSE i \in DOMAIN LowerChars : LowerChars[i] = c]
    ELSE c

\* no upper limit on the repetitions of an item
Unbounded == 0 - 1

Rep(set, min, max) == [set |-> set, min |-> min, max |-> max]
One(set) == Rep(set, 1, 1)
Opt(set) == Rep(set, 0, 1)
Star(set) == Rep(set, 0, Unbounded)
Plus(set) == Rep(set, 1, Unbounded)
\* the characters of word, one item each; with the i flag a letter stands for
\* both its cases
Literal(word) == [i \in 1..Len(word) |-> One({word[i]})]
LiteralI(word) ==
    [i \in 1..Len(word) |-> One({toLowerCaseChar(word[i]), toUpperCaseChar(word[i])})]

Alt(items, first, last) == [items |-> items, first |-> first, last |-> last]
\* an alternative that is captured whole
Captured(items) == Alt(items, 1, Len(items))

NoMatch == <<0 - 1>>

\* How many characters from pos on the item can take at most.
longestRun(item, text, pos) ==
    LET limit == IF item.max = Unbounded \/ item.max > Len(text) - pos
                 THEN Len(text) - pos
                 ELSE item.max
        runs  == {n \in 0..limit : \A i \in 1..n : text[pos + i] \in item.set}
    IN  CHOOSE n \in runs : \A m \in runs : m <= n

\* The items k.. matched at pos: the position after each of them, or NoMatch.
\* An item takes as many characters as leave a match of the items after it
\* (outcomes: what the items after it give for each number of characters).
RECURSIVE matchItems(_, _, _, _)
matchItems(items, k, text, pos) ==
    IF k > Len(items) THEN <<>>
    ELSE LET outcomes == {<<n, matchItems(items, k + 1, text, pos + n)>> :
                             n \in items[k].min..longestRun(items[k], text, pos)}
             good     == {o \in outcomes : o[2] # NoMatch}
             best     == CHOOSE o \in good : \A q \in good : q[1] <= o[1]
         IN  IF good = {} THEN NoMatch ELSE <<pos + best[1]>> \o best[2]

\* the alternatives of the pattern that match at pos
matchingAlts(pattern, text, pos) ==
    {a \in DOMAIN pattern : matchItems(pattern[a].items, 1, text, pos) # NoMatch}

\* The array a match of alternative alt at pos gives: index, [0] the matched
\* text (full), [1] the text of group 1 (group); groups is the number of
\* groups the pattern has.
matchArray(alt, text, pos, ends) ==
    [index  |-> pos,
     full   |-> SubSeq(text, pos + 1, IF ends = <<>> THEN pos ELSE ends[Len(ends)]),
     groups |-> 1,
     group  |-> SubSeq(text,
                       (IF alt.first = 1 THEN pos ELSE ends[alt.first - 1]) + 1,
                       IF alt.last = 0 THEN pos ELSE ends[alt.last])]

\* match returns null
NullMatch == [index |-> 0 - 1, full |-> <<>>, groups |-> 0, group |-> <<>>]

\* text.match(undefined): the empty pattern matches at 0 and has no group
EmptyMatch == [index |-> 0, full |-> <<>>, groups |-> 0, group |-> <<>>]

matchAt(pattern, text, pos, alts) ==
    LET a == CHOOSE x \in alts : \A y \in alts : x <= y
    IN  matchArray(pattern[a], text, pos, matchItems(pattern[a].items, 1, text, pos))

matchFrom(pattern, text, starts) ==
    LET pos == CHOOSE x \in starts : \A y \in starts : x <= y
    IN  matchAt(pattern, text, pos, matchingAlts(pattern, text, pos))

\* text.match(pattern) for a pattern without the g flag: the leftmost match,
\* at one position the first alternative that matches; null when none does.
match(text, pattern) ==
    LET starts == {pos \in 0..Len(text) : matchingAlts(pattern, text, pos) # {}}
    IN  IF starts = {} THEN NullMatch ELSE matchFrom(pattern, text, starts)

(***************************************************************************)
(* BANK_PATTERNS                                                           *)
(***************************************************************************)
\* [\d,]+\.?\d*
AmountToken == <<Plus(Digits \cup {","}), Opt({"."}), Star(Digits)>>
\* \*{2,4}\d{4,10}
MaskedAccount == <<Rep({"*"}, 2, 4), Rep(Digits, 4, 10)>>
\* \d{2}:\d{2}
HoursMinutes == <<Rep(Digits, 2, 2), One({":"}), Rep(Digits, 2, 2)>>

\* (debit|credit|withdrawal|transfer|payment) with the i flag
TypeWords ==
    <<Captured(LiteralI(<<"d", "e", "b", "i", "t">>)),
      Captured(LiteralI(<<"c", "r", "e", "d", "i", "t">>)),
      Captured(LiteralI(<<"w", "i", "t", "h", "d", "r", "a", "w", "a", "l">>)),
      Captured(LiteralI(<<"t", "r", "a", "n", "s", "f", "e", "r">>)),
      Captured(LiteralI(<<"p", "a", "y", "m", "e", "n", "t">>))>>

gtbank ==
    [amountPattern  |->
        <<Alt(LiteralI(<<"A", "m", "o", "u", "n", "t", ":">>)
              \o <<Star(WhiteSpace), Opt({Naira})>> \o AmountToken, 10, 12)>>,
     typePattern    |-> TypeWords,
     timePattern    |->
        <<Captured(<<Rep(Digits, 1, 2), One({"/"}), Rep(Digits, 1, 2), One({"/"}),
                     Rep(Digits, 4, 4), Plus(WhiteSpace),
                     Rep(Digits, 1, 2), One({":"}), Rep(Digits, 2, 2), One({":"}),
                     Rep(Digits, 2, 2)>>)>>,
     accountPattern |->
        <<Alt(LiteralI(<<"A", "c", "c", "o", "u", "n", "t", ":">>)
              \o <<Star(WhiteSpace)>> \o MaskedAccount, 10, 11)>>]

access ==
    [amountPattern  |->
        <<Alt(LiteralI(<<"N", "G", "N">>) \o <<Star(WhiteSpace)>> \o AmountToken, 5, 7)>>,
     typePattern    |-> TypeWords,
     timePattern    |->
        <<Captured(<<Rep(Digits, 2, 2), One({"-"}), Rep(WordChars, 3, 3), One({"-"}),
                     Rep(Digits, 4, 4), Plus(WhiteSpace)>>
                   \o HoursMinutes \o <<One({":"}), Rep(Digits, 2, 2)>>)>>,
     accountPattern |->
        <<Alt(LiteralI(<<"A", "/", "C", ":">>) \o <<Star(WhiteSpace)>> \o MaskedAccount,
              6, 7)>>]

firstbank ==
    [amountPattern  |->
        <<Alt(LiteralI(<<"A", "m", "o", "u", "n", "t">>)
              \o <<Star(WhiteSpace), One({":", "="}), Star(WhiteSpace), Opt({Naira})>>
              \o AmountToken, 11, 13)>>,
     typePattern    |->
        <<Captured(LiteralI(<<"D", "e", "b", "i", "t">>)),
          Captured(LiteralI(<<"C", "r", "e", "d", "i", "t">>))>>,
     timePattern    |->
        <<Captured(<<Rep(Digits, 2, 2), One({"/"}), Rep(Digits, 2, 2), One({"/"}),
                     Rep(Digits, 4, 4), Plus(WhiteSpace)>> \o HoursMinutes)>>,
     accountPattern |->
        <<Alt(LiteralI(<<"A", "c", "c", "o", "u", "n", "t">>)
              \o <<Star(WhiteSpace), One({":", "="}), Star(WhiteSpace)>>
              \o MaskedAccount, 11, 12)>>]

(***************************************************************************)
(* Numbers read from text.  parseFloat gives NaN or a decimal: its whole   *)
(* part v and its fraction digits frac without the zeros at their end.     *)
(***************************************************************************)
DigitValue(c) == CHOOSE d \in 0..9 : ToString(d) = c

\* the number a string of digits writes; 0 for the empty string
RECURSIVE digitsValue(_)
digitsValue(ds) ==
    IF ds = <<>> THEN 0
    ELSE 10 * digitsValue(SubSeq(ds, 1, Len(ds) - 1)) + DigitValue(ds[Len(ds)])

RECURSIVE withoutTrailingZeros(_)
withoutTrailingZeros(ds) ==
    IF ds # <<>> /\ ds[Len(ds)] = "0"
    THEN withoutTrailingZeros(SubSeq(ds, 1, Len(ds) - 1))
    ELSE ds

Decimal(whole, fraction) == [nan |-> FALSE, v |-> whole, frac |-> fraction]

\* str.replace(/,/g, '')
removeCommas(str) == SelectSeq(str, LAMBDA c : c # ",")

\* the digits of str from position pos on
digitsAt(str, pos) == SubSeq(str, pos + 1, pos + longestRun(Star(Digits), str, pos))

\* parseFloat of a string that begins with a digit, a point or another
\* character that is no sign and no white space (or is empty): the longest
\* prefix digits [. digits] or . digits, NaN when there is no digit in it.
parseFloatParts(str, whole, hasPoint) ==
    IF whole = <<>> /\ (~hasPoint \/ digitsAt(str, 1) = <<>>) THEN NaN
    ELSE Decimal(digitsValue(whole),
                 IF hasPoint THEN withoutTrailingZeros(digitsAt(str, Len(whole) + 1))
                 ELSE <<>>)

parseFloatWhole(str, whole) ==
    parseFloatParts(str, whole, Len(str) > Len(whole) /\ str[Len(whole) + 1] = ".")

parseFloat(str) == parseFloatWhole(str, digitsAt(str, 0))

(***************************************************************************)
(* new Date(string) for the texts the time patterns capture, as V8 reads   *)
(* them (its parser for dates that are not in the ISO format): numbers     *)
(* separated by / are month, day, year, or year, month, day when the first *)
(* is no day of a month; with a month's name the numbers are day and year. *)
(* Time values are local-time milliseconds counted from EpochDay.          *)
(***************************************************************************)
MonthNames ==
    << <<"j", "a", "n">>, <<"f", "e", "b">>, <<"m", "a", "r">>, <<"a", "p", "r">>,
       <<"m", "a", "y">>, <<"j", "u", "n">>, <<"j", "u", "l">>, <<"a", "u", "g">>,
       <<"s", "e", "p">>, <<"o", "c", "t">>, <<"n", "o", "v">>, <<"d", "e", "c">> >>

\* days from 1970-01-01 to the first day of month m of year y
DaysFromCivil(y, m) ==
    LET yy  == IF m <= 2 THEN y - 1 ELSE y
        era == yy \div 400
        yoe == yy - era * 400
        mp  == (m + 9) % 12
        doy == (153 * mp + 2) \div 5
        doe == yoe * 365 + yoe \div 4 - yoe \div 100 + doy
    IN  era * 146097 + doe - 719468

\* 2024-10-01
EpochDay == DaysFromCivil(2024, 10)

MsPerDay == 24 * 60 * 60 * 1000

\* a year of one or two digits is of the century around 2000
fullYear(year) ==
    IF year >= 0 /\ year <= 49 THEN year + 2000
    ELSE IF year >= 50 /\ year <= 99 THEN year + 1900
    ELSE year

\* the time value of the fields, NaN unless month, day and time of day are
\* in their ranges (the hour 24 only as 24:00:00)
makeTime(year, month, day, hour, minute, second) ==
    IF /\ month \in 1..12
       /\ day \in 1..31
       /\ \/ hour \in 0..23 /\ minute \in 0..59 /\ second \in 0..59
          \/ hour = 24 /\ minute = 0 /\ second = 0
    THEN Num((DaysFromCivil(fullYear(year), month) + day - 1 - EpochDay) * MsPerDay
             + ((hour * 60 + minute) * 60 + second) * 1000)
    ELSE NaN

\* the numbers n1/n2/n3
slashDate(n1, n2, n3, hour, minute, second) ==
    IF n1 \in 1..31
    THEN makeTime(n3, n1, n2, hour, minute, second)
    ELSE makeTime(n1, n2, n3, hour, minute, second)

\* the text between two of the positions a match gives
Field(text, ends, from, to) == SubSeq(text, ends[from] + 1, ends[to])

\* numbers / numbers / numbers, white space, numbers : numbers
SlashForm ==
    <<Plus(Digits), One({"/"}), Plus(Digits), One({"/"}), Plus(Digits),
      Plus(WhiteSpace), Plus(Digits), One({":"}), Plus(Digits)>>
\* numbers - word - numbers, white space, numbers : numbers
NameForm ==
    <<Plus(Digits), One({"-"}), Plus(Letters), One({"-"}), Plus(Digits),
      Plus(WhiteSpace), Plus(Digits), One({":"}), Plus(Digits)>>
\* : numbers
SecondsForm == <<One({":"}), Plus(Digits)>>

monthOfName(word) ==
    IF \E m \in DOMAIN MonthNames : MonthNames[m] = toLowerCase(SubSeq(word, 1, 3))
    THEN CHOOSE m \in DOMAIN MonthNames : MonthNames[m] = toLowerCase(SubSeq(word, 1, 3))
    ELSE 0

\* the seconds after the position a form ends at: 0 when the text ends there
secondsAt(text, pos, ends) ==
    IF ends = NoMatch THEN 0 ELSE digitsValue(SubSeq(text, ends[1] + 1, ends[2]))

\* whether the text ends at pos or with :numbers after it
endsAt(text, pos, ends) ==
    pos = Len(text) \/ (ends # NoMatch /\ ends[2] = Len(text))

dateParseSlash(text, ends) ==
    IF ~endsAt(text, ends[9], matchItems(SecondsForm, 1, text, ends[9])) THEN NaN
    ELSE slashDate(digitsValue(SubSeq(text, 1, ends[1])),
                   digitsValue(Field(text, ends, 2, 3)),
                   digitsValue(Field(text, ends, 4, 5)),
                   digitsValue(Field(text, ends, 6, 7)),
                   digitsValue(Field(text, ends, 8, 9)),
                   secondsAt(text, ends[9], matchItems(SecondsForm, 1, text, ends[9])))

dateParseName(text, ends) ==
    IF ~endsAt(text, ends[9], matchItems(SecondsForm, 1, text, ends[9])) THEN NaN
    ELSE makeTime(digitsValue(Field(text, ends, 4, 5)),
                  monthOfName(Field(text, ends, 2, 3)),
                  digitsValue(SubSeq(text, 1, ends[1])),
                  digitsValue(Field(text, ends, 6, 7)),
                  digitsValue(Field(text, ends, 8, 9)),
                  secondsAt(text, ends[9], matchItems(SecondsForm, 1, text, ends[9])))

\* Date.parse(text): a time value or NaN
dateParse(text) ==
    IF matchItems(SlashForm, 1, text, 0) # NoMatch
    THEN dateParseSlash(text, matchItems(SlashForm, 1, text, 0))
    ELSE IF matchItems(NameForm, 1, text, 0) # NoMatch
    THEN dateParseName(text, matchItems(NameForm, 1, text, 0))
    ELSE NaN

\* new Date(text)
newDate(text) == [kind |-> "date", t |-> dateParse(text)]

(***************************************************************************)
(* The BANK_PATTERNS object: its own properties (own, profiles by name)    *)
(* and its prototype (proto), Object.prototype unless a profile has been   *)
(* assigned to the name __proto__.  A property's value is a profile, or    *)
(* another object (a function of Object.prototype, Object.prototype itself,*)
(* a regular expression of a profile that is the prototype), or undefined. *)
(***************************************************************************)
ObjectPrototype == "Object.prototype"

ObjectPrototypeKeys ==
    {"constructor", "toString", "toLocaleString", "valueOf", "hasOwnProperty",
     "isPrototypeOf", "propertyIsEnumerable"}

PatternKeys == {"amountPattern", "typePattern", "timePattern", "accountPattern"}

Patterns(p) == [kind |-> "patterns", patterns |-> p]
OtherObject == [kind |-> "object", patterns |-> <<>>]
UndefinedValue == [kind |-> "undefined", patterns |-> <<>>]

InitialBankPatterns ==
    [own   |-> [n \in {"gtbank", "access", "firstbank"} |->
                   IF n = "gtbank" THEN gtbank
                   ELSE IF n = "access" THEN access ELSE firstbank],
     proto |-> ObjectPrototype]

\* object[name]
getProperty(object, name) ==
    IF name \in DOMAIN object.own THEN Patterns(object.own[name])
    ELSE IF name = "__proto__"
    THEN (IF object.proto = ObjectPrototype THEN OtherObject ELSE Patterns(object.proto))
    ELSE IF object.proto # ObjectPrototype /\ name \in PatternKeys THEN OtherObject
    ELSE IF name \in ObjectPrototypeKeys THEN OtherObject
    ELSE UndefinedValue

\* Variant of setProperty that leaves a property that exists as it is: C17
\* tells the two apart.
setPropertyIfAbsent(object, name, value) ==
    IF name = "__proto__" THEN [object EXCEPT !.proto = value]
    ELSE IF name \in DOMAIN object.own THEN object
    ELSE [object EXCEPT !.own = [n \in DOMAIN object.own \cup {name} |->
                                    IF n = name THEN value ELSE object.own[n]]]

\* object[name] = value, for a value that is an object
setProperty(object, name, value) ==
    IF name = "__proto__" THEN [object EXCEPT !.proto = value]
    ELSE [object EXCEPT !.own = [n \in DOMAIN object.own \cup {name} |->
                                    IF n = name THEN value ELSE object.own[n]]]

\* BANK_PATTERNS[bankName] = patterns  (the parser itself, this, has no part)
addBankPattern(this, registry, bankName, patterns) ==
    setProperty(registry, bankName, patterns)

(***************************************************************************)
(* BankAlertParser.parseEmail                                              *)
(***************************************************************************)
DESCRIPTION_LENGTH == 200

Thrown(error) == [thrown |-> TRUE, error |-> error]
Returned(value) == [thrown |-> FALSE, value |-> value]

\* BANK_PATTERNS[bank] || BANK_PATTERNS.gtbank  (every object is truthy)
lookupPatterns(registry, bank) ==
    IF getProperty(registry, bank).kind # "undefined"
    THEN getProperty(registry, bank)
    ELSE getProperty(registry, "gtbank")

\* email.match(patterns.<key>) for the pattern p of a profile; an object that
\* is no profile has no such property, and match(undefined) matches the
\* empty text
matchProperty(email, found, p) ==
    IF found.kind = "patterns" THEN match(email, p) ELSE EmptyMatch

\* amountMatch ? parseFloat(amountMatch[1].replace(/,/g, '')) : 0
parseAmount(amountMatch) ==
    IF amountMatch.index >= 0
    THEN parseFloat(removeCommas(amountMatch.group))
    ELSE Decimal(0, <<>>)

\* str.includes(part)
includes(str, part) ==
    \E i \in 1..(Len(str) - Len(part) + 1) : SubSeq(str, i, i + Len(part) - 1) = part

\* Variant of transactionTypeOf that looks for the two words in the whole
\* text: C18 tells the two apart.
transactionTypeOfText(email, typeMatch) ==
    IF \/ includes(toLowerCase(email), <<"d", "e", "b", "i", "t">>)
       \/ includes(toLowerCase(email), <<"w", "i", "t", "h", "d", "r", "a", "w", "a", "l">>)
    THEN "debit"
    ELSE "credit"

\* typeMatch?.[1]?.toLowerCase().includes('debit') ||
\* typeMatch?.[1]?.toLowerCase().includes('withdrawal') ? 'debit' : 'credit'
transactionTypeOf(email, typeMatch) ==
    IF /\ typeMatch.index >= 0
       /\ typeMatch.groups >= 1
       /\ \/ includes(toLowerCase(typeMatch.group), <<"d", "e", "b", "i", "t">>)
          \/ includes(toLowerCase(typeMatch.group),
                      <<"w", "i", "t", "h", "d", "r", "a", "w", "a", "l">>)
    THEN "debit"
    ELSE "credit"

\* timeMatch ? new Date(timeMatch[1]) : new Date()
timestampOf(timeMatch, clock) ==
    IF timeMatch.index >= 0 THEN newDate(timeMatch.group) ELSE DateOf(clock)

\* accountMatch?.[1] || ''
accountNumberOf(accountMatch) ==
    IF accountMatch.index >= 0 /\ accountMatch.groups >= 1 THEN accountMatch.group
    ELSE <<>>

\* Variant of substring that leaves out the character at the end: C19 tells
\* the two apart.
substringShort(str, start, end) ==
    SubSeq(str, start + 1, (IF end > Len(str) THEN Len(str) ELSE end) - 1)

\* str.substring(start, end) for 0 <= start <= end
substring(str, start, end) ==
    SubSeq(str, start + 1, IF end > Len(str) THEN Len(str) ELSE end)

\* the object parseEmail returns
parsedAlert(email, bank, amount, transactionType, timestamp, accountNumber) ==
    [amount          |-> amount,
     currency        |-> "NGN",
     accountNumber   |-> accountNumber,
     description     |-> substring(email, 0, DESCRIPTION_LENGTH),
     transactionType |-> transactionType,
     timestamp       |-> timestamp,
     rawEmail        |-> email,
     bank            |-> bank]

\* The four extractions with the profile found.  When found is an object
\* that is no profile, amountMatch is the match of the empty pattern, its
\* [1] is undefined and .replace throws a TypeError.
parseEmailWith(email, bank, clock, found, amountMatch) ==
    IF amountMatch.index >= 0 /\ amountMatch.groups = 0 THEN Thrown("TypeError")
    ELSE Returned(parsedAlert(
             email, bank,
             parseAmount(amountMatch),
             transactionTypeOf(email, matchProperty(email, found, found.patterns.typePattern)),
             timestampOf(matchProperty(email, found, found.patterns.timePattern), clock),
             accountNumberOf(matchProperty(email, found, found.patterns.accountPattern))))

parseEmailFound(email, bank, clock, found) ==
    parseEmailWith(email, bank, clock, found,
                   IF found.kind = "patterns"
                   THEN match(email, found.patterns.amountPattern)
                   ELSE EmptyMatch)

\* registry is BANK_PATTERNS, clock the value of Date.now() during the call
parseEmail(this, registry, email, bank, clock) ==
    parseEmailFound(email, bank, clock, lookupPatterns(registry, bank))

(***************************************************************************)
(* State: one call of findMatches (its arguments, the clock, its result)   *)
(* and one call of a string function (its arguments and its result).       *)
(***************************************************************************)
VARIABLES
    phase,          \* "ready" before the call, then the name of the function called
    alert,          \* findMatches: the alert
    transactions,   \* findMatches: the candidate list
    now,            \* the value Date.now() returns during the call
    results,        \* findMatches: the returned array
    returned,       \* findMatches: the identity of the returned array (the
                    \* candidate list is array 1; 0 before the call)
    str1, str2,     \* calculateSimilarity / levenshteinDistance: the two strings
    similarity,     \* calculateSimilarity: the returned number
    distance,       \* levenshteinDistance: the returned number
    BANK_PATTERNS,  \* the object of the profiles, shared by all parsers
    parser,         \* parseEmail: the BankAlertParser it is called on
    email, bank,    \* parseEmail: the text and the name of the profile
    parsed,         \* parseEmail: what it returned, or that it threw
    registered,     \* the addBankPattern calls so far, in their order
    config,         \* the agent: its configuration
    metrics,        \* the agent: its metrics
    processed,      \* history, not a field of the agent: the alerts the loop
                    \* of processAlerts took since the last resetMetrics, and
                    \* whether the last call invoked processAlerts
    request,        \* the last call on the agent or the route: its arguments
    response,       \* and what it returned, or that it threw
    imap,           \* the InboxHandler: what this.imap refers to
    call,           \* the last call on the InboxHandler and its promise
    fetch           \* pollBankAlerts: the fetch under way and its closure

vars ==
    <<phase, alert, transactions, now, results, returned, str1, str2, similarity,
      distance, BANK_PATTERNS, parser, email, bank, parsed, registered,
      config, metrics, processed, request, response, imap, call, fetch>>

matcherVars == <<alert, transactions, now, results, returned>>
stringVars == <<str1, str2, similarity, distance>>
parserVars == <<BANK_PATTERNS, parser, email, bank, parsed, registered>>
agentVars == <<config, metrics, processed, request, response>>

inboxVars == <<imap, call, fetch>>

\* parseEmail has not been called
NotParsed == Thrown("not called")

\* no call of the parser: the state of the module as loaded
ParserIdle ==
    /\ BANK_PATTERNS = InitialBankPatterns
    /\ parser = "bankAlertParser"
    /\ email = <<>>
    /\ bank = "gtbank"
    /\ parsed = NotParsed
    /\ registered = <<>>

\* the agent's config as its class declares it; a ratio n/d stands for the
\* number amountTolerance
DefaultConfig ==
    [bankTypes           |-> <<"gtbank", "access">>,
     timeWindowMs        |-> 15 * 60 * 1000,
     amountTolerance     |-> [n |-> 2, d |-> 100],
     confidenceThreshold |-> FRatio(6, 10)]

\* { ...this.config, ...newConfig }: the fields newConfig has replace those
\* of the config
mergeConfig(old, newConfig) ==
    [k \in DOMAIN old |-> IF k \in DOMAIN newConfig THEN newConfig[k] ELSE old[k]]

\* the metrics of a new agent and after resetMetrics; a ratio n/d stands for
\* the number accuracy
initialMetrics(clock) ==
    [totalAlerts   |-> 0,
     matchedAlerts |-> 0,
     accuracy      |-> [n |-> 0, d |-> 1],
     lastRun       |-> DateOf(clock)]

NoRequest == [method |-> "none"]
NoResponse == [kind |-> "none"]

\* an agent constructed without a config, before any call
AgentIdle ==
    /\ config = DefaultConfig
    /\ metrics = initialMetrics(now)
    /\ processed = [alerts |-> 0, invoked |-> FALSE]
    /\ request = NoRequest
    /\ response = NoResponse

\* a call on the InboxHandler: its promise is pending, resolved (with value)
\* or rejected (with error); stage is what a pending call waits for
Call(op, stage, promise, value, error) ==
    [op |-> op, stage |-> stage, promise |-> promise, value |-> value, error |-> error]

NoCall == Call("none", "done", "none", <<>>, "")

\* no fetch under way
NoFetch == [results |-> 0, emitted |-> 0, parsing |-> {}, processedCount |-> 0, emails |-> <<>>]

\* an InboxHandler after its constructor, before any call
InboxIdle ==
    /\ imap = "null"
    /\ call = NoCall
    /\ fetch = NoFetch

(***************************************************************************)
(* Bounded inputs                                                          *)
(***************************************************************************)
MaxTxns == 3
MaxStrLen == 3
MaxAmount == 12
AmountSpread == 25

T0 == 2 * TIME_WINDOW_MS

SeqsUpTo(S, n) == UNION {[1..k -> S] : k \in 0..n}

\* Candidate ids are distinct: the i-th candidate of a list is "t<i>".
TxnId(i) == "t" \o ToString(i)
WithIds(bodies) ==
    [i \in 1..Len(bodies) |->
        [id            |-> TxnId(i),
         amount        |-> bodies[i].amount,
         accountNumber |-> bodies[i].accountNumber,
         description   |-> bodies[i].description,
         timestamp     |-> bodies[i].timestamp]]

BaseAlert ==
    [id            |-> "alert-1",
     amount        |-> 1000,
     accountNumber |-> "****1234",
     description   |-> <<"a", "b">>,
     timestamp     |-> DateOf(T0)]

Candidate(amount, accountNumber, description, timestamp) ==
    [amount |-> amount, accountNumber |-> accountNumber,
     description |-> description, timestamp |-> timestamp]

InWindow == DateOf(T0)
OutOfWindow == DateOf(T0 + TIME_WINDOW_MS + 1)

\* Ranking inputs: candidates of eight confidences against BaseAlert.  SameText
\* is the alert's description after normalisation (similarity 1), <<>> has
\* similarity 0.
SameText == <<"A", "b", " ">>
RankBodies ==
    { Candidate(1000, "****1234", SameText, InWindow),    \* 0.4 + 0.3 + 0.2 + 0.1
      Candidate(1021, "****1234", SameText, InWindow),    \* 0.3 + 0.2 + 0.1
      Candidate(1000, "****5678", <<>>, InWindow),        \* 0.4 + 0.2
      Candidate(1000, "****5678", <<>>, OutOfWindow),     \* 0.4
      Candidate(1021, "****1234", <<>>, OutOfWindow),     \* 0.3
      Candidate(1021, "****5678", SameText, InWindow),    \* 0.2 + 0.1
      Candidate(1021, "****5678", <<>>, OutOfWindow),     \* 0
      Candidate(1022, "****5678", <<>>, OutOfWindow) }    \* 0

InitRanking ==
    /\ alert = BaseAlert
    /\ transactions \in {WithIds(l) : l \in SeqsUpTo(RankBodies, MaxTxns)}
    /\ now = T0

\* Amount inputs: every pair of small amounts, and the candidates within
\* AmountSpread of the alert amounts 50 and 1000.
InitAmounts ==
    /\ \E a \in (0..MaxAmount) \cup {50, 1000} :
       \E c \in IF a <= MaxAmount THEN 0..MaxAmount
                ELSE (a - AmountSpread)..(a + AmountSpread) :
          /\ alert = [BaseAlert EXCEPT !.id = "alert-2", !.amount = a]
          /\ transactions = WithIds(<<Candidate(c, "****1234", <<"a">>, DateOf(T0))>>)
    /\ now = T0

TimeOffsets ==
    {0, 1, 1000, TIME_WINDOW_MS - 1, TIME_WINDOW_MS, TIME_WINDOW_MS + 1,
     TIME_WINDOW_MS + 1000}

TimeValues ==
    {DateOf(T0 + d) : d \in TimeOffsets} \cup {DateOf(T0 - d) : d \in TimeOffsets}
    \cup {StringOf(T0 + TIME_WINDOW_MS), StringOf(T0 + TIME_WINDOW_MS + 1),
          StringOf(0), BadString, InvalidDate, Undefined,
          NumberOf(0), NumberOf(T0 - TIME_WINDOW_MS), NumberOf(T0 - TIME_WINDOW_MS - 1)}

\* Time inputs: the alert at T0 (or without a usable time), one candidate
\* around the window's two ends.
InitTimes ==
    /\ \E ta \in {DateOf(T0), InvalidDate, Undefined} :
       \E tc \in TimeValues :
          /\ alert = [BaseAlert EXCEPT !.id = "alert-3", !.timestamp = ta]
          /\ transactions = WithIds(<<Candidate(1000, "****5678", <<"b">>, tc)>>)
    /\ now \in {T0, T0 + TIME_WINDOW_MS + 1}

\* Description inputs: an alert with a description of ten characters, one
\* candidate whose description is the same after normalisation, differs in
\* one character (similarity 0.9), in five (0.5), or is empty (0); every
\* combination of the other three factors.
LongText == <<"a", "b", "a", "b", "a", "b", "a", "b", "a", "b">>
DescriptionTexts ==
    { LongText,
      <<" ">> \o [LongText EXCEPT ![1] = "A"] \o <<" ">>,
      [LongText EXCEPT ![10] = "a"],
      <<"a", "b", "a", "b", "a", "a", "a", "a", "a", "a">> \o <<"a">>,
      SubSeq(LongText, 1, 5),
      <<>> }

InitDescriptions ==
    /\ \E c \in {1000, 1020, 1021, 900} :
       \E acct \in {"****1234", "****5678"} :
       \E d \in DescriptionTexts :
       \E tc \in {DateOf(T0), DateOf(T0 + TIME_WINDOW_MS), DateOf(T0 + TIME_WINDOW_MS + 1)} :
          /\ alert = [BaseAlert EXCEPT !.id = "alert-4", !.description = LongText]
          /\ transactions = WithIds(<<Candidate(c, acct, d, tc)>>)
    /\ now = T0

Init ==
    /\ phase = "ready"
    /\ InitRanking \/ InitAmounts \/ InitTimes \/ InitDescriptions
    /\ results = <<>>
    /\ returned = 0
    /\ str1 = <<>> /\ str2 = <<>>
    /\ similarity = FZero
    /\ distance = 0
    /\ ParserIdle
    /\ AgentIdle
    /\ InboxIdle

\* the candidate list is array 1 of the heap findMatches is called in
FindMatches ==
    /\ phase = "ready"
    /\ results' = findMatches(alert, transactions, now)
    /\ \E array \in {findMatchesCall(<<transactions>>, 1, alert, now)} :
          /\ transactions' = array.heap[1]
          /\ returned' = array.id
    /\ phase' = "findMatches"
    /\ UNCHANGED <<alert, now, stringVars, parserVars, agentVars, inboxVars>>

Next == FindMatches

Spec == Init /\ [][Next]_vars

(***************************************************************************)
(* The string functions on every pair of strings over a small alphabet.    *)
(***************************************************************************)
Alphabet == {"a", "b", "A", " "}
Strings == SeqsUpTo(Alphabet, MaxStrLen)

SimInit ==
    /\ phase = "ready"
    /\ str1 \in Strings
    /\ str2 \in Strings
    /\ similarity = FZero
    /\ distance = 0
    /\ alert = BaseAlert
    /\ transactions = <<>>
    /\ now = T0
    /\ results = <<>>
    /\ returned = 0
    /\ ParserIdle
    /\ AgentIdle
    /\ InboxIdle

CalculateSimilarity ==
    /\ phase = "ready"
    /\ similarity' = calculateSimilarity(str1, str2)
    /\ phase' = "calculateSimilarity"
    /\ UNCHANGED <<str1, str2, distance, matcherVars, parserVars, agentVars, inboxVars>>

LevenshteinDistance ==
    /\ phase = "ready"
    /\ distance' = levenshteinDistance(str1, str2)
    /\ phase' = "levenshteinDistance"
    /\ UNCHANGED <<str1, str2, similarity, matcherVars, parserVars, agentVars, inboxVars>>

SimNext == CalculateSimilarity \/ LevenshteinDistance

SimSpec == SimInit /\ [][SimNext]_vars


(***************************************************************************)
(* parseEmail on texts put together from an amount, a direction, an        *)
(* account and a time, under every name of a profile, and findMatches for  *)
(* the alert it returns.                                                   *)
(***************************************************************************)
AmountTexts ==
    { <<"A", "m", "o", "u", "n", "t", ":", " ", "₦", "5", "0", ",",
         "0", "0", "0">>,
      <<>>,
      <<"A", "m", "o", "u", "n", "t", ":", " ", ",">>,
      <<"A", "M", "O", "U", "N", "T", ":", "1", ",", "2", "5", "0",
         ".", "5", "0">>,
      <<"N", "G", "N", " ", "7", ".">>,
      <<"A", "m", "o", "u", "n", "t", " ", "=", " ", "₦", ",", ".",
         "5">> }

DirectionTexts ==
    { <<" ", "f", "r", "o", "m", " ">>,
      <<" ", "d", "e", "b", "i", "t", " ", "f", "r", "o", "m", " ">>,
      <<" ", "C", "r", "e", "d", "i", "t", ",", " ", "n", "o", "t",
         " ", "d", "e", "b", "i", "t", ",", " ", "f", "r", "o", "m",
         " ">>,
      <<" ", "W", "I", "T", "H", "D", "R", "A", "W", "A", "L", "\n",
         "f", "r", "o", "m", " ">>,
      <<" ", "p", "a", "y", "m", "e", "n", "t", " ", "f", "r", "o",
         "m", " ">> }

AccountTexts ==
    { <<"A", "c", "c", "o", "u", "n", "t", ":", " ", "*", "*", "*",
         "*", "1", "2", "3", "4">>,
      <<"A", "/", "C", ":", "*", "*", "1", "2", "3", "4", "5", "6">> }

TimeTexts ==
    { <<"1", "5", "/", "1", "0", "/", "2", "0", "2", "4", " ", "1",
         "4", ":", "3", "0", ":", "4", "5">>,
      <<"1", "0", "/", "1", "5", "/", "2", "0", "2", "4", " ", "1",
         "4", ":", "3", "0", ":", "4", "5">>,
      <<>>,
      <<"1", "5", "-", "O", "c", "t", "-", "2", "0", "2", "4", " ",
         "1", "4", ":", "3", "0", ":", "4", "5">>,
      <<"1", "0", "/", "1", "5", "/", "2", "0", "2", "4", " ", "2",
         "4", ":", "3", "0">> }

\* "Amount: ₦50,000 from Account: ****1234 on 15/10/2024 14:30:45"
ExampleEmail ==
    <<"A", "m", "o", "u", "n", "t", ":", " ", "₦", "5", "0", ",",
     "0", "0", "0", " ", "f", "r", "o", "m", " ", "A", "c", "c",
     "o", "u", "n", "t", ":", " ", "*", "*", "*", "*", "1", "2",
     "3", "4", " ", "o", "n", " ", "1", "5", "/", "1", "0", "/",
     "2", "0", "2", "4", " ", "1", "4", ":", "3", "0", ":", "4",
     "5">>

\* a text longer than a description
LongEmail == ExampleEmail \o [i \in 1..DESCRIPTION_LENGTH |-> IF i % 7 = 0 THEN " " ELSE "x"]

Emails ==
    {a \o d \o c \o <<" ", "o", "n", " ">> \o t :
        a \in AmountTexts, d \in DirectionTexts, c \in AccountTexts, t \in TimeTexts}
    \cup {LongEmail, SubSeq(LongEmail, 1, DESCRIPTION_LENGTH),
          SubSeq(LongEmail, 1, DESCRIPTION_LENGTH + 1)}

\* the names of the three profiles, and names that are not a profile's
ProfileNames == {"gtbank", "access", "firstbank"}
OtherNames == {"GTBank", "zenith", "", "constructor", "__proto__"}

\* the texts without a word for the direction, with the first account
PlainEmails ==
    {a \o <<" ", "f", "r", "o", "m", " ", "A", "c", "c", "o", "u", "n", "t", ":", " ",
            "*", "*", "*", "*", "1", "2", "3", "4", " ", "o", "n", " ">> \o t :
        a \in AmountTexts, t \in TimeTexts}

\* 2024-10-15T14:30:45, and a quarter of an hour and a second after it
ExampleTime == 14 * MsPerDay + ((14 * 60 + 30) * 60 + 45) * 1000
ParseClock == ExampleTime + TIME_WINDOW_MS + 1000

\* the transaction of the example, with a description
ExampleCandidate(description) ==
    [id            |-> "txn-001",
     amount        |-> 50000,
     accountNumber |-> <<"*", "*", "*", "*", "1", "2", "3", "4">>,
     description   |-> description,
     timestamp     |-> DateOf(ExampleTime)]

\* "Debit transfer"
DebitTransfer ==
    <<"D", "e", "b", "i", "t", " ", "t", "r", "a", "n", "s", "f", "e", "r">>

\* Every text under the three profiles; the plain texts under the other
\* names; the example against a transaction described by the same text.
ParseInputs ==
    \/ /\ email \in Emails
       /\ bank \in ProfileNames
       /\ transactions = <<ExampleCandidate(DebitTransfer)>>
    \/ /\ email \in PlainEmails
       /\ bank \in OtherNames
       /\ transactions = <<ExampleCandidate(DebitTransfer)>>
    \/ /\ email = ExampleEmail
       /\ bank = "gtbank"
       /\ transactions \in {<<ExampleCandidate(ExampleEmail)>>,
                            <<ExampleCandidate(<<" ">> \o toLowerCase(ExampleEmail))>>}

ParseInit ==
    /\ phase = "ready"
    /\ BANK_PATTERNS = InitialBankPatterns
    /\ parser = "bankAlertParser"
    /\ ParseInputs
    /\ parsed = NotParsed
    /\ registered = <<>>
    /\ now = ParseClock
    /\ AgentIdle
    /\ InboxIdle
    /\ alert = BaseAlert
    /\ results = <<>>
    /\ returned = 0
    /\ str1 = <<>> /\ str2 = <<>>
    /\ similarity = FZero
    /\ distance = 0

ParseEmail ==
    /\ phase = "ready"
    /\ parsed' = parseEmail(parser, BANK_PATTERNS, email, bank, now)
    /\ phase' = "parseEmail"
    /\ UNCHANGED <<BANK_PATTERNS, parser, email, bank, registered, matcherVars, stringVars, agentVars, inboxVars>>

\* a number the matcher's amounts can take: a whole number
IsWhole(number) == ~number.nan /\ number.frac = <<>>

\* { id: `alert-${Date.now()}-${idx}`, ...parseEmail(email, bankType) }
alertOf(value, clock, idx) ==
    [id            |-> "alert-" \o ToString(clock) \o "-" \o ToString(idx),
     amount        |-> value.amount.v,
     accountNumber |-> value.accountNumber,
     description   |-> value.description,
     timestamp     |-> value.timestamp]

\* findMatches for the alert of the text parsed
MatchParsed ==
    /\ phase = "parseEmail"
    /\ ~parsed.thrown
    /\ IsWhole(parsed.value.amount)
    /\ alert' = alertOf(parsed.value, now, 0)
    /\ results' = findMatches(alert', transactions, now)
    /\ \E array \in {findMatchesCall(<<transactions>>, 1, alert', now)} :
          /\ transactions' = array.heap[1]
          /\ returned' = array.id
    /\ phase' = "matchParsed"
    /\ UNCHANGED <<now, stringVars, parserVars, agentVars, inboxVars>>

ParseNext == ParseEmail \/ MatchParsed

ParseSpec == ParseInit /\ [][ParseNext]_vars


(***************************************************************************)
(* addBankPattern and parseEmail, by any of the parsers there are, on the  *)
(* one BANK_PATTERNS of the module.  registered is the list of the         *)
(* registrations made.                                                     *)
(***************************************************************************)
MaxRegistrations == 2

\* the exported singleton and the parser of the agent
Parsers == {"bankAlertParser", "agent.parser"}

RegisteredNames == {"gtbank", "newbank"}
RegisteredPatterns == {access, firstbank}

\* two texts that each of the three profiles reads differently
RegistryEmails ==
    { <<"A", "m", "o", "u", "n", "t", ":", " ", "₦", "5", "0", ",", "0", "0", "0",
        " ", "p", "a", "y", "m", "e", "n", "t", " ", "f", "r", "o", "m", " ",
        "A", "c", "c", "o", "u", "n", "t", ":", " ", "*", "*", "*", "*", "1", "2",
        "3", "4", " ", "o", "n", " ", "1", "0", "/", "1", "5", "/", "2", "0", "2",
        "4", " ", "1", "4", ":", "3", "0", ":", "4", "5">>,
      <<"N", "G", "N", " ", "7", ".", " ", "W", "I", "T", "H", "D", "R", "A", "W",
        "A", "L", "\n", "f", "r", "o", "m", " ", "A", "/", "C", ":", "*", "*",
        "1", "2", "3", "4", "5", "6", " ", "o", "n", " ", "1", "5", "-", "O", "c",
        "t", "-", "2", "0", "2", "4", " ", "1", "4", ":", "3", "0", ":", "4", "5">> }

RegistryInit ==
    /\ phase = "ready"
    /\ BANK_PATTERNS = InitialBankPatterns
    /\ parser \in Parsers
    /\ email \in RegistryEmails
    /\ bank \in RegisteredNames \cup {"access"}
    /\ parsed = NotParsed
    /\ registered = <<>>
    /\ now = ParseClock
    /\ AgentIdle
    /\ InboxIdle
    /\ alert = BaseAlert
    /\ transactions = <<>>
    /\ results = <<>>
    /\ returned = 0
    /\ str1 = <<>> /\ str2 = <<>>
    /\ similarity = FZero
    /\ distance = 0

\* this.addBankPattern(bankName, patterns), before or after a parseEmail
AddBankPattern ==
    /\ Len(registered) < MaxRegistrations
    /\ \E this \in Parsers, bankName \in RegisteredNames, patterns \in RegisteredPatterns :
          /\ BANK_PATTERNS' = addBankPattern(this, BANK_PATTERNS, bankName, patterns)
          /\ registered' = Append(registered, [this     |-> this,
                                               bankName |-> bankName,
                                               patterns |-> patterns])
    /\ phase' = "ready"
    /\ parsed' = NotParsed
    /\ UNCHANGED <<parser, email, bank, matcherVars, stringVars, agentVars, inboxVars>>

RegistryNext == AddBankPattern \/ ParseEmail

RegistrySpec == RegistryInit /\ [][RegistryNext]_vars


(***************************************************************************)
(* TelexBankAlertMatcherAgent and processA2ARequest.  The agent's parser   *)
(* and matcher are a BankAlertParser and a TransactionMatcher as above;    *)
(* the matcher is constructed without arguments.                           *)
(***************************************************************************)
\* what a call left of the metrics, and what it returned or that it threw
Outcome(m, result) == [metrics |-> m, result |-> result]

RECURSIVE matchAlerts(_, _, _, _, _, _)

\* one turn of the loop: matches[0] is pushed and counted; reading .matched
\* of undefined throws a TypeError
matchAlert(alerts, txns, clock, i, pushed, m, matches) ==
    IF matches = <<>>
    THEN Outcome([m EXCEPT !.totalAlerts = @ + 1], Thrown("TypeError"))
    ELSE matchAlerts(alerts, txns, clock, i + 1, Append(pushed, matches[1]),
                     [m EXCEPT !.totalAlerts = @ + 1,
                               !.matchedAlerts = IF matches[1].matched THEN @ + 1 ELSE @])

\* for (const alert of alerts) {...}, then accuracy and lastRun
matchAlerts(alerts, txns, clock, i, pushed, m) ==
    IF i > Len(alerts)
    THEN Outcome([m EXCEPT !.accuracy = IF m.totalAlerts > 0
                                        THEN [n |-> m.matchedAlerts, d |-> m.totalAlerts]
                                        ELSE [n |-> 0, d |-> 1],
                           !.lastRun = DateOf(clock)],
                 Returned(pushed))
    ELSE matchAlert(alerts, txns, clock, i, pushed, m, findMatches(alerts[i], txns, clock))

\* processAlerts once every email is parsed (for texts whose amount is a
\* whole number)
processParsed(alerts, txns, clock, m) ==
    IF \E i \in 1..Len(alerts) : alerts[i].thrown
    THEN Outcome(m, Thrown("TypeError"))
    ELSE matchAlerts(SubSeq([i \in 1..Len(alerts) |-> alertOf(alerts[i].value, clock, i - 1)],
                            1, Len(alerts)),
                     txns, clock, 1, <<>>, m)

\* agent.processAlerts(emails, transactions, bankType); m is this.metrics
processAlerts(registry, m, emails, txns, bankType, clock) ==
    processParsed(SubSeq([i \in 1..Len(emails) |->
                             parseEmail("agent.parser", registry, emails[i], bankType, clock)],
                         1, Len(emails)),
                  txns, clock, m)

\* number.toFixed(2) in hundredths, for a quotient of counts below 40 (no
\* such quotient is within a rounding error of a half of a hundredth)
toFixed2(ratio) == (200 * ratio.n + ratio.d) \div (2 * ratio.d)

\* agent.getMetrics()
getMetrics(m) == [m EXCEPT !.accuracy = [n |-> toFixed2(m.accuracy), d |-> 100]]

\* the number a ratio of the model stands for
NumberOf2(ratio) == FRatio(ratio.n, ratio.d)

\* request ids: a string, a number, or none
IdString(str) == [type |-> "string", str |-> str, num |-> 0]
IdNumber(num) == [type |-> "number", str |-> "", num |-> num]
IdUndefined == [type |-> "undefined", str |-> "", num |-> 0]
IdNull == [type |-> "null", str |-> "", num |-> 0]

\* !!id
truthyId(id) == (id.type = "string" /\ id.str # "") \/ (id.type = "number" /\ id.num # 0)

\* params.emails and params.transactions: an array, or something else
ArrayOf(items) == [array |-> TRUE, items |-> items]
NotAnArray == [array |-> FALSE, items |-> <<>>]

\* error instanceof Error ? error.message : 'Unknown error'
errorMessage(error) ==
    IF error = "TypeError" THEN "Cannot read properties of undefined" ELSE "Unknown error"

\* the artifacts of a response: matchResults is what processAlerts returned
\* ([] when it threw or was not called), processingError the message of
\* what it threw ("" stands for null), shown is agent.getMetrics()
artifactsOf(matchResults, processingError, shown) ==
    <<[name      |-> "BankAlertMatcherResponse",
       processed |-> Len(matchResults),
       matched   |-> shown.matchedAlerts,
       accuracy  |-> shown.accuracy]>>
    \o (IF Len(matchResults) > 0
        THEN <<[name    |-> "BankAlertMatches",
                matches |-> matchResults,
                summary |-> [total    |-> Len(matchResults),
                             matched  |-> Cardinality({i \in 1..Len(matchResults) :
                                                          matchResults[i].matched}),
                             accuracy |-> shown.accuracy]]>>
        ELSE <<>>)
    \o <<[name |-> "AgentMetrics", data |-> shown]>>
    \o (IF processingError # ""
        THEN <<[name |-> "ProcessingError", text |-> processingError]>>
        ELSE <<>>)

\* Variant of resultOf whose state is that of the results alone: C25 tells
\* the two apart.
resultOfResults(body, matchResults, processingError, shown) ==
    [kind      |-> "result",
     id        |-> body.id,
     state     |-> IF Len(matchResults) = 0 THEN "error" ELSE "completed",
     artifacts |-> artifactsOf(matchResults, processingError, shown)]

\* the response to a valid request
resultOf(body, matchResults, processingError, shown) ==
    [kind      |-> "result",
     id        |-> body.id,
     state     |-> IF processingError # "" THEN "error" ELSE "completed",
     artifacts |-> artifactsOf(matchResults, processingError, shown)]

\* what a request left of the metrics, the response to it, and whether
\* processAlerts was invoked for it
Handled(m, reply, invoked) == [metrics |-> m, result |-> reply, invoked |-> invoked]

\* the response after the agent's part, out being what processAlerts left
\* (the metrics as they were and [] when it was not invoked)
respond(body, out, invoked) ==
    Handled(out.metrics,
            resultOf(body,
                     IF out.result.thrown THEN <<>> ELSE out.result.value,
                     IF out.result.thrown THEN errorMessage(out.result.error) ELSE "",
                     getMetrics(out.metrics)),
            invoked)

\* processA2ARequest(agent, body): the agent's metrics after it and the
\* response
processA2ARequest(registry, m, body, clock) ==
    IF body.jsonrpc # "2.0" \/ ~truthyId(body.id)
    THEN Handled(m,
                 [kind |-> "error",
                  id   |-> IF truthyId(body.id) THEN body.id ELSE IdNull,
                  code |-> 0 - 32600],
                 FALSE)
    ELSE IF body.emails.array /\ body.transactions.array
    THEN respond(body,
                 processAlerts(registry, m, body.emails.items, body.transactions.items,
                               body.bankType, clock),
                 TRUE)
    ELSE respond(body, Outcome(m, Returned(<<>>)), FALSE)

(***************************************************************************)
(* One agent: constructed with a config, then any calls of updateConfig,   *)
(* processAlerts, resetMetrics and of processA2ARequest for it.            *)
(***************************************************************************)
MaxAlerts == 2

\* "Amount: 100 Account: **1234" and "Amount: 500 Account: **9999"
EmailA ==
    <<"A", "m", "o", "u", "n", "t", ":", " ", "1", "0", "0", " ", "A", "c", "c", "o",
      "u", "n", "t", ":", " ", "*", "*", "1", "2", "3", "4">>
EmailB ==
    <<"A", "m", "o", "u", "n", "t", ":", " ", "5", "0", "0", " ", "A", "c", "c", "o",
      "u", "n", "t", ":", " ", "*", "*", "9", "9", "9", "9">>

\* a transaction EmailA matches, and one five minutes earlier that EmailB
\* does not match
TxnA ==
    [id |-> "txn-1", amount |-> 100, accountNumber |-> <<"*", "*", "1", "2", "3", "4">>,
     description |-> <<"P", "O", "S">>, timestamp |-> DateOf(ParseClock)]
TxnB ==
    [id |-> "txn-2", amount |-> 300, accountNumber |-> <<"*", "*", "9", "9", "9", "9">>,
     description |-> <<"P", "O", "S">>, timestamp |-> DateOf(ParseClock - 5 * 60 * 1000)]

\* the arguments of the calls of processAlerts
Arguments(emails, txns, bankType) ==
    [method |-> "processAlerts", emails |-> emails, transactions |-> txns,
     bankType |-> bankType]

ArgumentLists ==
    { Arguments(<<>>, <<TxnA>>, "gtbank"),
      Arguments(<<EmailA>>, <<TxnA>>, "gtbank"),
      Arguments(<<EmailB>>, <<TxnA>>, "gtbank"),
      Arguments(<<EmailB>>, <<TxnB>>, "gtbank"),
      Arguments(<<EmailB, EmailA>>, <<TxnB, TxnA>>, "gtbank"),
      Arguments(<<EmailA>>, <<>>, "gtbank"),
      Arguments(<<EmailA>>, <<TxnA>>, "constructor") }

\* the config a caller gives
ConfigOverrides ==
    { [timeWindowMs        |-> 60 * 1000,
       amountTolerance     |-> [n |-> 1, d |-> 2],
       confidenceThreshold |-> FRatio(95, 100)] }

Body(jsonrpc, id, emails, txns, bankType) ==
    [method |-> "processA2ARequest", jsonrpc |-> jsonrpc, id |-> id, emails |-> emails,
     transactions |-> txns, bankType |-> bankType]

Bodies ==
    {Body("2.0", IdString("req-001"), ArrayOf(e), ArrayOf(<<TxnA>>), "gtbank") :
        e \in {<<>>, <<EmailA>>, <<EmailB>>, <<EmailB, EmailA>>}}
    \cup {Body("2.0", id, ArrayOf(<<EmailA>>), ArrayOf(<<TxnA>>), "gtbank") :
            id \in {IdNumber(7), IdNumber(0), IdString(""), IdUndefined}}
    \cup {Body("1.0", IdString("req-001"), ArrayOf(<<EmailA>>), ArrayOf(<<TxnA>>), "gtbank"),
          Body("2.0", IdString("req-001"), ArrayOf(<<EmailA>>), ArrayOf(<<>>), "gtbank"),
          Body("2.0", IdString("req-001"), NotAnArray, ArrayOf(<<TxnA>>), "gtbank"),
          Body("2.0", IdString("req-001"), ArrayOf(<<EmailA>>), NotAnArray, "gtbank"),
          Body("2.0", IdString("req-001"), ArrayOf(<<EmailA>>), ArrayOf(<<TxnA>>),
               "constructor")}

AgentInit ==
    /\ phase = "ready"
    /\ now = ParseClock
    /\ config \in {DefaultConfig} \cup {mergeConfig(DefaultConfig, c) : c \in ConfigOverrides}
    /\ metrics = initialMetrics(now)
    /\ processed = [alerts |-> 0, invoked |-> FALSE]
    /\ request = NoRequest
    /\ response = NoResponse
    /\ InboxIdle
    /\ ParserIdle
    /\ alert = BaseAlert
    /\ transactions = <<>>
    /\ results = <<>>
    /\ returned = 0
    /\ str1 = <<>> /\ str2 = <<>>
    /\ similarity = FZero
    /\ distance = 0

agentFrame == UNCHANGED <<phase, matcherVars, stringVars, parserVars, inboxVars>>

UpdateConfig ==
    /\ \E newConfig \in ConfigOverrides :
          /\ config' = mergeConfig(config, newConfig)
          /\ request' = [method |-> "updateConfig", newConfig |-> newConfig]
    /\ response' = NoResponse
    /\ processed' = [processed EXCEPT !.invoked = FALSE]
    /\ UNCHANGED metrics
    /\ agentFrame

ResetMetrics ==
    /\ metrics' = initialMetrics(now)
    /\ processed' = [alerts |-> 0, invoked |-> FALSE]
    /\ request' = [method |-> "resetMetrics"]
    /\ response' = NoResponse
    /\ UNCHANGED config
    /\ agentFrame

\* the alerts a call has the loop take
taken(before, after) == after.totalAlerts - before.totalAlerts

ProcessAlerts ==
    /\ \E args \in ArgumentLists :
          /\ metrics.totalAlerts + Len(args.emails) <= MaxAlerts
          /\ request' = args
          /\ \E out \in {processAlerts(BANK_PATTERNS, metrics, args.emails,
                                       args.transactions, args.bankType, now)} :
                /\ metrics' = out.metrics
                /\ response' = out.result
                /\ processed' = [alerts  |-> processed.alerts + taken(metrics, out.metrics),
                                 invoked |-> TRUE]
    /\ UNCHANGED config
    /\ agentFrame

ProcessA2ARequest ==
    /\ \E body \in Bodies :
          /\ metrics.totalAlerts + Len(body.emails.items) <= MaxAlerts
          /\ request' = body
          /\ \E out \in {processA2ARequest(BANK_PATTERNS, metrics, body, now)} :
                /\ metrics' = out.metrics
                /\ response' = out.result
                /\ processed' = [alerts  |-> processed.alerts + taken(metrics, out.metrics),
                                 invoked |-> out.invoked]
    /\ UNCHANGED config
    /\ agentFrame

AgentNext == UpdateConfig \/ ResetMetrics \/ ProcessAlerts \/ ProcessA2ARequest

AgentSpec == AgentInit /\ [][AgentNext]_vars


(***************************************************************************)
(* Properties of findMatches                                               *)
(***************************************************************************)
Called == phase = "findMatches"

Count(seq, x) == Cardinality({i \in DOMAIN seq : seq[i] = x})

\* What scoring each candidate on its own gives, in input order.
Scores ==
    SubSeq([i \in DOMAIN transactions |-> scoreMatch(alert, transactions[i], now)],
           1, Len(transactions))

\* C1: findMatches returns exactly one result per candidate (N results for N
\* candidates, N = 0 included), each carrying the alert's identifier: the
\* results are the candidates' scores, each as often as it occurs among them.
C1_OneResultPerCandidate ==
    Called =>
        LET sc == Scores IN
        /\ Len(results) = Len(transactions)
        /\ \A i \in DOMAIN results :
              /\ results[i].alertId = alert.id
              /\ Count(results, results[i]) = Count(sc, results[i])

\* three candidates, the first result matched, the two others not
C1_Witness ==
    /\ Called
    /\ Len(transactions) = 3
    /\ Len(results) = 3
    /\ results[1].matched
    /\ ~results[2].matched
    /\ results[2] = results[3]

\* C2: in every result matched is true iff confidence >= 0.6; a matched result
\* carries the id of the candidate it scores, an unmatched one carries null.
C2_MatchedIffThreshold ==
    Called =>
        LET sc == Scores IN
        \A i \in DOMAIN results :
            LET r == results[i] IN
            /\ r.matched <=> FCmp(r.confidence, FRatio(6, 10)) >= 0
            /\ r.matched =>
                  \E j \in DOMAIN transactions :
                      /\ r.transactionId = transactions[j].id
                      /\ r = sc[j]
            /\ ~r.matched => r.transactionId = Null

\* a result exactly at the threshold (account and time pass, identical
\* descriptions) next to one just below it
C2_Witness ==
    /\ Called
    /\ Len(results) = 2
    /\ results[1].matched
    /\ results[1].confidence = FRatio(6, 10)
    /\ results[1].transactionId = "t2"
    /\ ~results[2].matched
    /\ results[2].transactionId = Null

\* The place the i-th of the scores sc has in a stable descending order:
\* after every score of higher confidence and after the equal ones before it.
StablePlace(sc, i) ==
    1 + Cardinality({j \in DOMAIN sc :
                        \/ FCmp(sc[j].confidence, sc[i].confidence) > 0
                        \/ /\ j < i
                           /\ FCmp(sc[j].confidence, sc[i].confidence) = 0})

\* C3: the results are ordered non-increasing by confidence and candidates
\* of equal confidence keep their input order, so that the first result has
\* the highest confidence whether or not it is matched.
C3_SortedStable ==
    Called =>
        LET sc == Scores IN
        /\ \A i, j \in DOMAIN results :
              i < j => FCmp(results[i].confidence, results[j].confidence) >= 0
        /\ \A i \in DOMAIN sc : results[StablePlace(sc, i)] = sc[i]

\* three candidates, none matched: the last one has the highest confidence
\* and comes first, the two others differ, tie and keep their order
C3_Witness ==
    /\ Called
    /\ Len(results) = 3
    /\ \A i \in 1..3 : ~results[i].matched
    /\ LET sc == Scores IN
       /\ results = <<sc[3], sc[1], sc[2]>>
       /\ sc[1] # sc[2]
       /\ sc[1].confidence = sc[2].confidence
       /\ sc[3].confidence # sc[1].confidence

\* 1 or 0 as the factor passes or not
Indicator(b) == IF b THEN FOne ELSE FZero

\* 0.4 * amount + 0.3 * account + 0.2 * time + 0.1 * similarity
WeightedSum(amountFactor, accountFactor, timeFactor, sim) ==
    FAdd(FAdd(FAdd(FMul(FRatio(4, 10), amountFactor),
                   FMul(FRatio(3, 10), accountFactor)),
              FMul(FRatio(2, 10), timeFactor)),
         FMul(FRatio(1, 10), sim))

\* |a - c| / a <= 2 / 100, in whole numbers; a ratio of 0 when a is 0
WithinTolerance(a, c) == a = 0 \/ 100 * Abs(a - c) <= 2 * a

\* The result the weighted sum prescribes for one candidate.
ExpectedResult(txn) ==
    LET timeDiff == NumAbs(NumSub(toTimestamp(alert.timestamp, now),
                                  toTimestamp(txn.timestamp, now)))
        within   == ~timeDiff.nan /\ timeDiff.v <= 15 * 60 * 1000
        sim      == calculateSimilarity(alert.description, txn.description)
        amountOk == WithinTolerance(alert.amount, txn.amount)
        conf     == WeightedSum(Indicator(amountOk),
                                Indicator(alert.accountNumber = txn.accountNumber),
                                Indicator(within), sim)
        matched  == FCmp(conf, FRatio(6, 10)) >= 0
    IN  [alertId       |-> alert.id,
         transactionId |-> IF matched THEN txn.id ELSE Null,
         confidence    |-> conf,
         matchDetails  |-> [amountMatch           |-> amountOk,
                            amountDifference      |-> Abs(alert.amount - txn.amount),
                            timeWindow            |-> timeDiff,
                            descriptionSimilarity |-> sim],
         matched       |-> matched]

\* C4: the confidence of every candidate's result is 0.4 * [amount within
\* tolerance] + 0.3 * [account strings equal] + 0.2 * [time difference within
\* the window] + 0.1 * similarity, and its matchDetails report the amount
\* flag, the absolute amount and time differences and the similarity used.
C4_WeightedSum ==
    Called =>
        \A i \in DOMAIN transactions :
            \E j \in DOMAIN results : results[j] = ExpectedResult(transactions[i])

\* amount and time pass, the account differs, the similarity is 1/2:
\* 0.4 + 0.2 + 0.05
C4_Witness ==
    /\ Called
    /\ Len(results) = 1
    /\ alert.accountNumber # transactions[1].accountNumber
    /\ results[1].matchDetails.amountMatch
    /\ results[1].matchDetails.timeWindow = Num(1000)
    /\ results[1].matchDetails.descriptionSimilarity = FRatio(1, 2)
    /\ results[1].confidence = FAdd(FAdd(FRatio(4, 10), FRatio(2, 10)),
                                    FMul(FRatio(1, 2), FRatio(1, 10)))

\* C5: every confidence and every descriptionSimilarity lies in [0, 1].
C5_UnitInterval ==
    Called =>
        \A i \in DOMAIN results :
            /\ FLeq(FZero, results[i].confidence)
            /\ FLeq(results[i].confidence, FOne)
            /\ FLeq(FZero, results[i].matchDetails.descriptionSimilarity)
            /\ FLeq(results[i].matchDetails.descriptionSimilarity, FOne)

\* every factor passes and the descriptions are the same after normalisation:
\* the highest confidence there is
C5_Witness ==
    /\ Called
    /\ Len(results) >= 1
    /\ results[1].matchDetails.descriptionSimilarity = FOne
    /\ results[1].confidence =
          FAdd(FAdd(FAdd(FRatio(4, 10), FRatio(3, 10)), FRatio(2, 10)), FRatio(1, 10))
    /\ results[Len(results)].confidence = FZero

\* a call with one candidate: results[1] is the result of transactions[1]
Single == Called /\ Len(transactions) = 1

\* C6: for an alert amount a > 0 the amount factor passes exactly when
\* |a - c| / a <= 0.02, the boundary included: with a = 1000 the candidates
\* 980 and 1020 pass, 979 and 1021 fail.
C6_AmountTolerance ==
    (Single /\ alert.amount > 0) =>
        LET a == alert.amount
            c == transactions[1].amount
        IN  /\ results[1].matchDetails.amountMatch <=> 100 * Abs(a - c) <= 2 * a
            /\ (a = 1000 /\ c \in {980, 1020}) => results[1].matchDetails.amountMatch
            /\ (a = 1000 /\ c \in {979, 1021}) => ~results[1].matchDetails.amountMatch

C6_Witness ==
    /\ Single
    /\ alert.amount = 1000
    /\ transactions[1].amount = 1020
    /\ results[1].matchDetails.amountMatch
    /\ results[1].matchDetails.amountDifference = 20

\* the time factor's 0.2 is in the confidence of the result r of candidate txn
TimeFactorPassed(r, txn) ==
    r.confidence =
        WeightedSum(Indicator(r.matchDetails.amountMatch),
                    Indicator(alert.accountNumber = txn.accountNumber),
                    FOne, r.matchDetails.descriptionSimilarity)

\* a timestamp that is a point in time: a valid Date, or a string or number
\* of a time value other than 0
IsTime(ts) == ts.kind # "undefined" /\ ~ts.t.nan /\ (ts.kind = "date" \/ ts.t.v # 0)

\* C7: when both timestamps are points in time the time factor passes exactly
\* when they are at most 15 minutes apart, in either direction: at
\* T + 15:00 and T - 15:00 it passes, one millisecond further it fails.
C7_TimeWindow ==
    (Single /\ IsTime(alert.timestamp) /\ IsTime(transactions[1].timestamp)) =>
        LET d == Abs(alert.timestamp.t.v - transactions[1].timestamp.t.v)
        IN  /\ TimeFactorPassed(results[1], transactions[1]) <=> d <= 900000
            /\ results[1].matchDetails.timeWindow = Num(d)

C7_Witness ==
    /\ Single
    /\ alert.timestamp = DateOf(T0)
    /\ transactions[1].timestamp = DateOf(T0 - 900000)
    /\ TimeFactorPassed(results[1], transactions[1])
    /\ results[1].matchDetails.timeWindow = Num(900000)

\* C8: for an alert amount of 0 the amount factor passes for every candidate
\* amount and contributes its 0.4, and amountDifference is |0 - c|.
C8_ZeroAmount ==
    (Single /\ alert.amount = 0) =>
        LET r == results[1] IN
        /\ r.matchDetails.amountMatch
        /\ r.matchDetails.amountDifference = transactions[1].amount
        /\ r.confidence =
              WeightedSum(FOne,
                          Indicator(alert.accountNumber = transactions[1].accountNumber),
                          Indicator(NumLeq(r.matchDetails.timeWindow, Num(900000))),
                          r.matchDetails.descriptionSimilarity)

C8_Witness ==
    /\ Single
    /\ alert.amount = 0
    /\ transactions[1].amount = 12
    /\ results[1].matchDetails.amountMatch
    /\ results[1].matchDetails.amountDifference = 12
    /\ results[1].matched

(***************************************************************************)
(* Properties of the string functions                                      *)
(***************************************************************************)
Min3(a, b, c) == Min(Min(a, b), c)

\* Row i of the full edit-distance matrix D from row i - 1 (prev), column by
\* column; cur holds D[i][0 .. Len(cur) - 1].
RECURSIVE MatrixRow(_, _, _, _, _)
MatrixRow(s1, s2, i, prev, cur) ==
    IF Len(cur) = Len(s2) + 1 THEN cur
    ELSE LET j == Len(cur)
             substitution == prev[j] + (IF s1[i] = s2[j] THEN 0 ELSE 1)
             deletion     == prev[j + 1] + 1
             insertion    == cur[j] + 1
         IN  MatrixRow(s1, s2, i, prev,
                       Append(cur, Min3(substitution, deletion, insertion)))

\* The matrix as the sequence of its rows 0 .. Len(s1).
RECURSIVE Matrix(_, _, _)
Matrix(s1, s2, rows) ==
    IF Len(rows) = Len(s1) + 1 THEN rows
    ELSE Matrix(s1, s2,
                Append(rows, MatrixRow(s1, s2, Len(rows), rows[Len(rows)],
                                       <<Len(rows)>>)))

\* D[Len(s1)][Len(s2)] of the unit-cost insertion / deletion / substitution matrix
EditDistance(s1, s2) ==
    Matrix(s1, s2, <<[j \in 1..(Len(s2) + 1) |-> j - 1]>>)[Len(s1) + 1][Len(s2) + 1]

\* s in lower case, without the white space at its two ends
Normalized(s) ==
    LET low  == [i \in 1..Len(s) |-> IF s[i] = "A" THEN "a"
                                     ELSE IF s[i] = "B" THEN "b" ELSE s[i]]
        kept == {i \in 1..Len(s) : low[i] # " "}
        first == CHOOSE i \in kept : \A k \in kept : i <= k
        last  == CHOOSE i \in kept : \A k \in kept : k <= i
    IN  IF kept = {} THEN <<>> ELSE SubSeq(low, first, last)

Max(a, b) == IF a > b THEN a ELSE b

\* C9: calculateSimilarity(a, b) is 1 when the lower-cased, trimmed strings
\* are identical (both empty included), 0 when exactly one of them is empty,
\* and otherwise (maxLen - edit distance) / maxLen; so similarity(s, s) = 1,
\* and two different non-empty normalised strings that agree in some
\* position score strictly between 0 and 1.
C9_Similarity ==
    phase = "calculateSimilarity" =>
        LET n1 == Normalized(str1)
            n2 == Normalized(str2)
            maxLen == Max(Len(n1), Len(n2))
        IN  /\ similarity =
                  IF n1 = n2 THEN FOne
                  ELSE IF n1 = <<>> \/ n2 = <<>> THEN FZero
                  ELSE FRatio(maxLen - EditDistance(n1, n2), maxLen)
            /\ str1 = str2 => similarity = FOne
            /\ (/\ n1 # n2
                /\ \E i \in DOMAIN n1 \cap DOMAIN n2 : n1[i] = n2[i])
               => (FCmp(FZero, similarity) < 0 /\ FCmp(similarity, FOne) < 0)

\* "aA" against " ab": one substitution in two characters
C9_Witness ==
    /\ phase = "calculateSimilarity"
    /\ str1 = <<"a", "A">>
    /\ str2 = <<" ", "a", "b">>
    /\ similarity = FRatio(1, 2)

\* C10: the single-row levenshteinDistance(s1, s2) is the entry
\* D[Len(s1)][Len(s2)] of the full unit-cost edit-distance matrix; it is 0
\* exactly for equal strings and never exceeds the longer length.
C10_Levenshtein ==
    phase = "levenshteinDistance" =>
        /\ distance = EditDistance(str1, str2)
        /\ distance = 0 <=> str1 = str2
        /\ distance <= Max(Len(str1), Len(str2))

\* "ab " against "bab": insert one, substitute one
C10_Witness ==
    /\ phase = "levenshteinDistance"
    /\ str1 = <<"a", "b", " ">>
    /\ str2 = <<"b", "a", "b">>
    /\ distance = 2


(***************************************************************************)
(* A candidate that fails the amount factor                                *)
(***************************************************************************)
\* C11: a candidate outside the amount tolerance whose account and timestamp
\* pass has confidence 0.5 + 0.1 * similarity, which for similarity 0.9 is
\* 0.59 and not matched; a candidate that fails the amount factor is matched
\* only if the account and the time factor pass and the normalised
\* descriptions are identical.
C11_AmountFailed ==
    (Single /\ ~results[1].matchDetails.amountMatch) =>
        LET r       == results[1]
            txn     == transactions[1]
            sim     == r.matchDetails.descriptionSimilarity
            account == alert.accountNumber = txn.accountNumber
            time    == NumLeq(r.matchDetails.timeWindow, Num(900000))
        IN  /\ (account /\ time) =>
                  r.confidence = FAdd(FRatio(5, 10), FMul(FRatio(1, 10), sim))
            /\ (account /\ time /\ sim = FRatio(9, 10)) =>
                  r.confidence = FRatio(59, 100) /\ ~r.matched
            /\ r.matched =>
                  /\ account /\ time /\ sim = FOne
                  /\ Normalized(alert.description) = Normalized(txn.description)

\* amount 1021 against 1000, same account, same time, one character of ten
\* differs: 0.59, not matched
C11_Witness ==
    /\ Single
    /\ transactions[1].amount = 1021
    /\ ~results[1].matchDetails.amountMatch
    /\ results[1].matchDetails.timeWindow = Num(0)
    /\ results[1].matchDetails.descriptionSimilarity = FRatio(9, 10)
    /\ results[1].confidence = FRatio(59, 100)
    /\ ~results[1].matched


(***************************************************************************)
(* Properties of parseEmail                                                *)
(***************************************************************************)
Parsed == parsed # NotParsed

Extracted == Parsed /\ ~parsed.thrown

OfExample == Parsed /\ email = ExampleEmail /\ bank = "gtbank"

\* "****1234"
MaskedExample == <<"*", "*", "*", "*", "1", "2", "3", "4">>

\* C12: parseEmail of the example text under the gtbank profile yields the
\* amount 50000, the account "****1234" as it stands in the text, the
\* direction credit and the timestamp 2024-10-15T14:30:45.
C12_ExampleParsed ==
    OfExample =>
        /\ ~parsed.thrown
        /\ parsed.value.amount = Decimal(50000, <<>>)
        /\ parsed.value.accountNumber = MaskedExample
        /\ parsed.value.transactionType = "credit"
        /\ parsed.value.timestamp = DateOf(ExampleTime)

\* C13: the alert parsed from the example, scored against the candidate of
\* the example (amount 50000, account "****1234", 2024-10-15T14:30:45), has
\* the amount, account and time factors passing, confidence >= 0.9 and is
\* matched with the candidate's id.
C13_ExampleMatched ==
    (OfExample /\ phase = "matchParsed") =>
        /\ Len(results) = 1
        /\ results[1].matchDetails.amountMatch
        /\ alert.accountNumber = transactions[1].accountNumber
        /\ NumLeq(results[1].matchDetails.timeWindow, Num(TIME_WINDOW_MS))
        /\ FLeq(FRatio(9, 10), results[1].confidence)
        /\ results[1].matched
        /\ results[1].transactionId = transactions[1].id

\* the profile of a name of ProfileNames, as the source writes it
ProfileOf(name) ==
    IF name = "gtbank" THEN gtbank ELSE IF name = "access" THEN access ELSE firstbank

HasDigit(str) == \E i \in 1..Len(str) : str[i] \in Digits

\* C14: the amount parseEmail returns is a finite number >= 0, never NaN;
\* it is 0 when the amount pattern does not match and when the token
\* matched holds no number.
C14_AmountFinite ==
    Extracted =>
        /\ ~parsed.value.amount.nan
        /\ parsed.value.amount.v >= 0
        /\ (/\ bank \in ProfileNames
            /\ \/ match(email, ProfileOf(bank).amountPattern).index < 0
               \/ ~HasDigit(match(email, ProfileOf(bank).amountPattern).group))
           => parsed.value.amount = Decimal(0, <<>>)

\* C15: the timestamp parseEmail returns is a valid point in time; it is
\* the time of the call when the time pattern finds no token and when the
\* token found is no valid date.
C15_TimestampValid ==
    Extracted =>
        /\ ~parsed.value.timestamp.t.nan
        /\ (/\ bank \in ProfileNames
            /\ \/ match(email, ProfileOf(bank).timePattern).index < 0
               \/ dateParse(match(email, ProfileOf(bank).timePattern).group).nan)
           => parsed.value.timestamp = DateOf(now)

\* C16: parseEmail never throws, and under a name that is not a profile's
\* (names differing in case are different names) it extracts with the
\* patterns of gtbank.
C16_UnknownNameFallsBack ==
    (Parsed /\ registered = <<>>) =>
        /\ ~parsed.thrown
        /\ bank \notin ProfileNames =>
              parsed = parseEmailFound(email, bank, now, Patterns(gtbank))

\* the registrations made under a name
RegistrationsOf(name) == {i \in 1..Len(registered) : registered[i].bankName = name}

LastOf(indices) == CHOOSE i \in indices : \A j \in indices : j <= i

\* the patterns a name stands for: those of the last registration under it,
\* else those the source gives it, else those gtbank stands for
PatternsFor(name) ==
    IF RegistrationsOf(name) # {} THEN registered[LastOf(RegistrationsOf(name))].patterns
    ELSE IF name \in ProfileNames THEN ProfileOf(name)
    ELSE IF RegistrationsOf("gtbank") # {}
    THEN registered[LastOf(RegistrationsOf("gtbank"))].patterns
    ELSE gtbank

\* C17: after addBankPattern(name, p) a parseEmail under name uses p,
\* whether or not name had a profile and whichever parser registered and
\* whichever parses; the last registration under a name wins, and the
\* profiles of the other names are as they were.
C17_LastRegistrationWins ==
    /\ \A name \in RegisteredNames \cup ProfileNames :
          getProperty(BANK_PATTERNS, name) =
              IF RegistrationsOf(name) # {} \/ name \in ProfileNames
              THEN Patterns(PatternsFor(name))
              ELSE UndefinedValue
    /\ Parsed => parsed = parseEmailFound(email, bank, now, Patterns(PatternsFor(bank)))

\* gtbank registered twice with different patterns by the parser that does
\* not parse: the text is read with the second, which reads it differently
\* from the first and from the profile replaced
C17_Witness ==
    /\ Parsed
    /\ bank = "gtbank"
    /\ Len(registered) = 2
    /\ registered[1].bankName = "gtbank"
    /\ registered[2].bankName = "gtbank"
    /\ registered[2].this # parser
    /\ parsed = parseEmailFound(email, bank, now, Patterns(registered[2].patterns))
    /\ parsed # parseEmailFound(email, bank, now, Patterns(registered[1].patterns))
    /\ parsed # parseEmailFound(email, bank, now, Patterns(gtbank))

\* the keywords of a profile's typePattern, in lower case
Keywords(name) ==
    IF name = "firstbank"
    THEN {<<"d", "e", "b", "i", "t">>, <<"c", "r", "e", "d", "i", "t">>}
    ELSE {<<"d", "e", "b", "i", "t">>, <<"c", "r", "e", "d", "i", "t">>,
          <<"w", "i", "t", "h", "d", "r", "a", "w", "a", "l">>,
          <<"t", "r", "a", "n", "s", "f", "e", "r">>,
          <<"p", "a", "y", "m", "e", "n", "t">>}

\* where which keyword occurs in a text in lower case
OccurrencesIn(lower, words) ==
    {o \in (1..Len(lower)) \X words :
        /\ o[1] + Len(o[2]) - 1 <= Len(lower)
        /\ SubSeq(lower, o[1], o[1] + Len(o[2]) - 1) = o[2]}

\* where which keyword occurs in the text, whatever the case of its letters
Occurrences(text, words) ==
    UNION {OccurrencesIn(lower, words) : lower \in {toLowerCase(text)}}

FirstKeyword(occurrences) ==
    (CHOOSE o \in occurrences : \A q \in occurrences : o[1] <= q[1])[2]

DirectionOf(occurrences) ==
    IF occurrences = {} THEN "credit"
    ELSE IF FirstKeyword(occurrences) \in
                {<<"d", "e", "b", "i", "t">>,
                 <<"w", "i", "t", "h", "d", "r", "a", "w", "a", "l">>}
    THEN "debit"
    ELSE "credit"

\* C18: the direction is that of the first keyword of the profile's type
\* pattern in the text, in any case of letters: debit for debit and
\* withdrawal, credit for another keyword and when there is none.
C18_FirstKeyword ==
    (Extracted /\ registered = <<>>) =>
        parsed.value.transactionType =
            DirectionOf(Occurrences(email, Keywords(IF bank \in ProfileNames
                                                    THEN bank ELSE "gtbank")))

\* " Credit, not debit, from " under gtbank is a credit, under access too;
\* " WITHDRAWAL\nfrom " is a debit under gtbank and a credit under firstbank
C18_Witness ==
    /\ Extracted
    /\ bank = "gtbank"
    /\ Cardinality(Occurrences(email, Keywords(bank))) = 2
    /\ includes(toLowerCase(email), <<"d", "e", "b", "i", "t">>)
    /\ parsed.value.transactionType = "credit"

\* C19: the description is the first 200 characters of the text, the whole
\* text when it is shorter, and rawEmail is the text, whatever the four
\* extractions found.
C19_Description ==
    Extracted =>
        /\ parsed.value.description =
              [i \in 1..Min(Len(email), 200) |-> email[i]]
        /\ parsed.value.rawEmail = email

\* a text of 261 characters under a profile that finds no amount and no
\* account in it
C19_Witness ==
    /\ Extracted
    /\ email = LongEmail
    /\ bank = "access"
    /\ parsed.value.amount = Decimal(0, <<>>)
    /\ parsed.value.accountNumber = <<>>
    /\ Len(parsed.value.description) = 200
    /\ Len(parsed.value.rawEmail) = 261


(***************************************************************************)
(* What findMatches leaves of its arguments                                *)
(***************************************************************************)
\* C20: a call of findMatches leaves the candidate list as it was (the same
\* elements in the same order, every field as before) and the alert as it
\* was, and the array it returns is not the candidate list but a new one.
C20_InputsUnchanged ==
    [][phase' = "findMatches" =>
          /\ transactions' = transactions
          /\ alert' = alert
          /\ returned' # 1
          /\ returned' # returned]_vars

\* a call that returns the candidates in another order than it was given
\* them
C20_Witness ==
    /\ Called
    /\ Len(transactions) >= 2
    /\ returned = 2
    /\ results[1].transactionId = transactions[2].id
    /\ results[2].transactionId = transactions[1].id


(***************************************************************************)
(* InboxHandler.  imap is what this.imap refers to: "null", or the Imap    *)
(* object, named by the state of its connection: "connecting" after        *)
(* connect(), "ready" once authenticated, "open" with INBOX selected,      *)
(* "failed" after its 'error' event.  The client makes one call at a time; *)
(* the callbacks of the library are delivered in separate steps.           *)
(***************************************************************************)
MaxMessages == 3

isConnected == imap # "null"

\* a call of the library that needs a selected mailbox, on an object
\* without one, throws inside the executor of the promise
NoMailbox == "No mailbox is currently selected"

Pending(op, stage) == Call(op, stage, "pending", <<>>, "")

Resolved(op, value) == Call(op, "done", "resolved", value, "")

Rejected(op, error) == Call(op, "done", "rejected", <<>>, error)

Settled == call.promise # "pending"

\* this.imap.search(...) of pollBankAlerts and getEmails
search(op) ==
    IF imap = "open" THEN Pending(op, "searching") ELSE Rejected(op, NoMailbox)

InboxInit ==
    /\ phase = "ready"
    /\ now = ParseClock
    /\ AgentIdle
    /\ InboxIdle
    /\ ParserIdle
    /\ alert = BaseAlert
    /\ transactions = <<>>
    /\ results = <<>>
    /\ returned = 0
    /\ str1 = <<>> /\ str2 = <<>>
    /\ similarity = FZero
    /\ distance = 0

inboxFrame == UNCHANGED <<phase, matcherVars, stringVars, parserVars, agentVars>>

\* connect(): this.imap is the new object from the start
Connect ==
    /\ Settled \/ call = NoCall
    /\ imap' = "connecting"
    /\ call' = Pending("connect", "connecting")
    /\ fetch' = NoFetch
    /\ inboxFrame

\* the 'error' or the 'ready' event of the object connect() made
ConnectCallback ==
    /\ call.promise = "pending"
    /\ call.stage = "connecting"
    /\ \E event \in {"error", "ready"} :
          IF event = "error"
          THEN /\ imap' = "failed"
               /\ call' = Rejected(call.op, "IMAP connection error")
          ELSE /\ imap' = "ready"
               /\ call' = Pending(call.op, "opening")
    /\ UNCHANGED fetch
    /\ inboxFrame

\* the callback of openBox; after it connect() is settled, and the
\* pollBankAlerts that awaited it goes on with the search or throws
OpenBoxCallback ==
    /\ call.promise = "pending"
    /\ call.stage = "opening"
    /\ \E err \in BOOLEAN :
          IF err
          THEN /\ call' = Rejected(call.op, "openBox")
               /\ UNCHANGED imap
          ELSE /\ imap' = "open"
               /\ call' = IF call.op = "connect"
                          THEN Resolved("connect", <<>>)
                          ELSE Pending(call.op, "searching")
    /\ UNCHANGED fetch
    /\ inboxFrame

PollBankAlerts ==
    /\ Settled \/ call = NoCall
    /\ IF ~isConnected
       THEN /\ imap' = "connecting"
            /\ call' = Pending("pollBankAlerts", "connecting")
       ELSE /\ call' = search("pollBankAlerts")
            /\ UNCHANGED imap
    /\ fetch' = NoFetch
    /\ inboxFrame

GetEmails ==
    /\ Settled \/ call = NoCall
    /\ IF ~isConnected
       THEN /\ imap' = "connecting"
            /\ call' = Pending("getEmails", "connecting")
       ELSE /\ call' = search("getEmails")
            /\ UNCHANGED imap
    /\ fetch' = NoFetch
    /\ inboxFrame

\* the callback of search: an error, or the results; with results the
\* fetch begins, with emails = [] and processedCount = 0
SearchCallback ==
    /\ call.promise = "pending"
    /\ call.stage = "searching"
    /\ \E err \in BOOLEAN, length \in 0..MaxMessages :
          IF err
          THEN /\ length = 0
               /\ call' = Rejected(call.op, IF call.op = "getEmails" THEN "search"
                                             ELSE "IMAP search failed")
               /\ fetch' = NoFetch
          ELSE IF length = 0
          THEN /\ call' = Resolved(call.op, <<>>)
               /\ fetch' = NoFetch
          ELSE /\ call' = Pending(call.op, "fetching")
               /\ fetch' = [NoFetch EXCEPT !.results = length]
    /\ UNCHANGED imap
    /\ inboxFrame

\* the 'message' event of the fetch: simpleParser is started on the message
Message ==
    /\ call.promise = "pending"
    /\ call.stage = "fetching"
    /\ fetch.emitted < fetch.results
    /\ fetch' = [fetch EXCEPT !.emitted = @ + 1, !.parsing = @ \cup {fetch.emitted + 1}]
    /\ UNCHANGED <<imap, call>>
    /\ inboxFrame

\* what simpleParser hands to its callback: an error, or the parsed mail
ParseError == [err |-> TRUE, text |-> "", html |-> ""]

ParsedMail(text, html) == [err |-> FALSE, text |-> text, html |-> html]

ParserOutcomes ==
    {ParseError, ParsedMail("Amount: 100", "<p>Amount: 100</p>"), ParsedMail("", "<p>Amount: 100</p>"),
     ParsedMail("", "")}

\* parsed.text || parsed.html || ''
emailTextOf(mail) == IF mail.text # "" THEN mail.text ELSE mail.html

\* the callback of simpleParser for the message msg, in pollBankAlerts and
\* in getEmails: what it leaves of the closure and what it does to the
\* promise.  On an error pollBankAlerts returns; getEmails rejects (and
\* then throws on parsed.text, inside the callback).
parserCallback(op, f, msg, mail) ==
    IF mail.err
    THEN [fetch   |-> [f EXCEPT !.parsing = @ \ {msg}],
          settles |-> IF op = "getEmails" THEN "reject" ELSE "no"]
    ELSE LET after == [f EXCEPT !.parsing = @ \ {msg},
                                !.emails = Append(@, emailTextOf(mail)),
                                !.processedCount = @ + 1]
         IN  [fetch   |-> after,
              settles |-> IF after.processedCount = after.results THEN "resolve" ELSE "no"]

\* a callback of a settled call has no effect that can be seen, so the
\* closure is dropped when the promise settles
ParserCallback ==
    /\ call.promise = "pending"
    /\ call.stage = "fetching"
    /\ \E msg \in fetch.parsing, mail \in ParserOutcomes :
          LET done == parserCallback(call.op, fetch, msg, mail)
          IN  IF done.settles = "no"
              THEN /\ fetch' = done.fetch
                   /\ UNCHANGED call
              ELSE /\ call' = IF done.settles = "resolve"
                              THEN Resolved(call.op, done.fetch.emails)
                              ELSE Rejected(call.op, "simpleParser")
                   /\ fetch' = NoFetch
    /\ UNCHANGED imap
    /\ inboxFrame

\* the 'error' event of the fetch
FetchError ==
    /\ call.promise = "pending"
    /\ call.stage = "fetching"
    /\ call' = Rejected(call.op, IF call.op = "getEmails" THEN "fetch"
                                  ELSE "IMAP fetch failed")
    /\ fetch' = NoFetch
    /\ UNCHANGED imap
    /\ inboxFrame

MarkAsRead ==
    /\ Settled \/ call = NoCall
    /\ call' = IF ~isConnected THEN Rejected("markAsRead", "Not connected to IMAP")
               ELSE IF imap = "open" THEN Pending("markAsRead", "flagging")
               ELSE Rejected("markAsRead", NoMailbox)
    /\ fetch' = NoFetch
    /\ UNCHANGED imap
    /\ inboxFrame

\* the callback of setFlags
SetFlagsCallback ==
    /\ call.promise = "pending"
    /\ call.stage = "flagging"
    /\ \E err \in BOOLEAN :
          call' = IF err THEN Rejected(call.op, "setFlags") ELSE Resolved(call.op, <<>>)
    /\ UNCHANGED <<imap, fetch>>
    /\ inboxFrame

Disconnect ==
    /\ Settled \/ call = NoCall
    /\ call' = IF ~isConnected THEN Resolved("disconnect", <<>>)
               ELSE IF imap = "open" THEN Pending("disconnect", "closing")
               ELSE Rejected("disconnect", NoMailbox)
    /\ fetch' = NoFetch
    /\ UNCHANGED imap
    /\ inboxFrame

\* the callback of closeBox: this.imap is cleared only without an error
CloseBoxCallback ==
    /\ call.promise = "pending"
    /\ call.stage = "closing"
    /\ \E err \in BOOLEAN :
          IF err
          THEN /\ call' = Rejected(call.op, "Failed to close inbox")
               /\ UNCHANGED imap
          ELSE /\ imap' = "null"
               /\ call' = Resolved(call.op, <<>>)
    /\ UNCHANGED fetch
    /\ inboxFrame

InboxNext ==
    \/ Connect
    \/ PollBankAlerts
    \/ GetEmails
    \/ MarkAsRead
    \/ Disconnect
    \/ FetchError
    \/ ConnectCallback
    \/ OpenBoxCallback
    \/ SearchCallback
    \/ Message
    \/ ParserCallback
    \/ SetFlagsCallback
    \/ CloseBoxCallback

InboxSpec == InboxInit /\ [][InboxNext]_vars

\* every callback the library owes is delivered; the client's calls and
\* the 'error' event of a fetch need not happen
InboxFairSpec ==
    /\ InboxSpec
    /\ WF_vars(ConnectCallback)
    /\ WF_vars(OpenBoxCallback)
    /\ WF_vars(SearchCallback)
    /\ WF_vars(Message)
    /\ WF_vars(ParserCallback)
    /\ WF_vars(SetFlagsCallback)
    /\ WF_vars(CloseBoxCallback)

(***************************************************************************)
(* Properties of the agent and of processA2ARequest                        *)
(***************************************************************************)
Processed == request.method = "processAlerts"

Requested == request.method = "processA2ARequest"

\* the alert processAlerts builds from the i-th text of the last call
AlertOfEmail(i) ==
    alertOf(parseEmail("agent.parser", BANK_PATTERNS, request.emails[i], request.bankType,
                       now).value,
            now, i - 1)

\* the result of scoring with the values of the config, for an alert, a
\* candidate and the result the call returned for them
ScoredWithConfig(a, txn, r) ==
    LET amountOk == \/ a.amount = 0
                    \/ config.amountTolerance.d * Abs(a.amount - txn.amount)
                          <= config.amountTolerance.n * a.amount
        timeOk   == NumLeq(r.matchDetails.timeWindow, Num(config.timeWindowMs))
    IN  /\ r.matchDetails.amountMatch = amountOk
        /\ r.confidence = WeightedSum(Indicator(amountOk),
                                      Indicator(a.accountNumber = txn.accountNumber),
                                      Indicator(timeOk),
                                      r.matchDetails.descriptionSimilarity)
        /\ r.matched = FLeq(config.confidenceThreshold, r.confidence)

\* C21: processAlerts scores and thresholds with the timeWindowMs,
\* amountTolerance and confidenceThreshold of the agent's config, as the
\* constructor or updateConfig set them.
C21_ConfigApplies ==
    (/\ Processed
     /\ ~response.thrown
     /\ Len(request.transactions) = 1) =>
        \A i \in 1..Len(request.emails) :
            ScoredWithConfig(AlertOfEmail(i), request.transactions[1], response.value[i])

\* C22: for every list of emails and every array of transactions, the
\* empty one too, processAlerts returns one result per email, in their
\* order: index 0 of findMatches for the alert of the email.
C22_OneResultPerEmail ==
    (Processed /\ request.bankType \in ProfileNames) =>
        /\ ~response.thrown
        /\ Len(response.value) = Len(request.emails)
        /\ \A i \in 1..Len(request.emails) :
              response.value[i] = findMatches(AlertOfEmail(i), request.transactions, now)[1]

\* C23: after any calls of processAlerts and resetMetrics, those that threw
\* too, matchedAlerts <= totalAlerts, accuracy is matchedAlerts /
\* totalAlerts (0 for no alerts), and totalAlerts is the number of alerts
\* taken since the last reset.
C23_MetricsConsistent ==
    /\ metrics.matchedAlerts <= metrics.totalAlerts
    /\ NumberOf2(metrics.accuracy) =
          IF metrics.totalAlerts = 0 THEN FZero
          ELSE FRatio(metrics.matchedAlerts, metrics.totalAlerts)
    /\ metrics.totalAlerts = processed.alerts

\* C24: the response is the error -32600 exactly when jsonrpc is not "2.0"
\* or there is no id; then processAlerts is not invoked and the metrics are
\* as before; every other request, its id a string or a number, 0 too, is
\* answered with a result under the id of the request.
C24_InvalidRequest ==
    [][request'.method = "processA2ARequest" =>
          LET invalid == request'.jsonrpc # "2.0" \/ request'.id.type = "undefined"
          IN  /\ (response'.kind = "error") = invalid
              /\ invalid => /\ response'.code = 0 - 32600
                            /\ ~processed'.invoked
                            /\ metrics' = metrics
              /\ ~invalid => /\ response'.kind = "result"
                             /\ response'.id = request'.id]_vars

\* whether processAlerts throws for the arrays of the last request
Throws ==
    processAlerts(BANK_PATTERNS, initialMetrics(now), request.emails.items,
                  request.transactions.items, request.bankType, now).result.thrown

ArtifactNames == {response.artifacts[i].name : i \in 1..Len(response.artifacts)}

\* C25: for a valid request processAlerts is invoked only when emails and
\* transactions are both arrays; when it throws the response is a result
\* of state error with a ProcessingError artifact and no BankAlertMatches
\* artifact, when it returns the state is completed and there is no
\* ProcessingError artifact.
C25_ErrorState ==
    (Requested /\ response.kind = "result") =>
        /\ processed.invoked = (request.emails.array /\ request.transactions.array)
        /\ (processed.invoked /\ Throws) =>
              /\ response.state = "error"
              /\ "ProcessingError" \in ArtifactNames
              /\ "BankAlertMatches" \notin ArtifactNames
        /\ ~(processed.invoked /\ Throws) =>
              /\ response.state = "completed"
              /\ "ProcessingError" \notin ArtifactNames

\* an email against no transactions: processAlerts throws after it counted
\* the alert
C25_Witness ==
    /\ Requested
    /\ response.kind = "result"
    /\ processed.invoked
    /\ request.transactions.items = <<>>
    /\ response.state = "error"
    /\ "ProcessingError" \in ArtifactNames
    /\ metrics.totalAlerts = 1

Artifact(name) ==
    response.artifacts[CHOOSE i \in 1..Len(response.artifacts) :
                           response.artifacts[i].name = name]

\* C27: in a response with a BankAlertMatches artifact, summary.accuracy is
\* summary.matched / summary.total, and the number the text of the
\* BankAlertMatcherResponse gives as successfully matched is the number of
\* matched results of the request.
C27_SummaryOfRequest ==
    (/\ Requested
     /\ response.kind = "result"
     /\ "BankAlertMatches" \in ArtifactNames) =>
        /\ NumberOf2(Artifact("BankAlertMatches").summary.accuracy) =
              FRatio(Artifact("BankAlertMatches").summary.matched,
                     Artifact("BankAlertMatches").summary.total)
        /\ Artifact("BankAlertMatcherResponse").matched =
              Cardinality({i \in 1..Len(Artifact("BankAlertMatches").matches) :
                              Artifact("BankAlertMatches").matches[i].matched})


(***************************************************************************)
(* Properties of the InboxHandler                                          *)
(***************************************************************************)
\* C26: under fair delivery of the callbacks every pollBankAlerts settles,
\* whatever the outcome of parsing each message.
C26_PollSettles ==
    (call.op = "pollBankAlerts" /\ call.promise = "pending") ~> Settled

\* C28: isConnected() is false before any call, false after a connect()
\* that rejected, true after a connect() that resolved and false after a
\* disconnect() that resolved; pollBankAlerts and getEmails never search
\* on a connection that failed; markAsRead rejects with 'Not connected to IMAP' when
\* isConnected() is false.
C28_ConnectedOnlyWhileOpen ==
    /\ call = NoCall => ~isConnected
    /\ (call.op = "connect" /\ call.promise = "rejected") => ~isConnected
    /\ (call.op = "connect" /\ call.promise = "resolved") => isConnected
    /\ (call.op = "disconnect" /\ call.promise = "resolved") => ~isConnected
    /\ call.op \in {"pollBankAlerts", "getEmails"} => call.error # NoMailbox
    /\ (call.op = "markAsRead" /\ ~isConnected) =>
          call = Rejected("markAsRead", "Not connected to IMAP")

=============================================================================
